---- MODULE Spec2Model ----
(***************************************************************************)
(* Outcome and economy engine of SDVGame: the round economy (Economy.ts),   *)
(* the two Mulberry32 random sources (Rng.ts and the slot variant) and the  *)
(* slot grid construction (GridBuilder.ts, OutcomeController.pickOutcome).  *)
(*                                                                          *)
(* Numbers.  The economy computes with JavaScript numbers.  They are        *)
(* modelled as exact decimals (sign, mantissa, scale): every constant of    *)
(* the code is a finite decimal, so products, sums and comparisons are      *)
(* exact; IEEE rounding of the last bit is not modelled.  A decimal is      *)
(*   [neg |-> BOOLEAN, m |-> digits base 10^4, least significant first,     *)
(*    e |-> number of base-10^4 digits after the point]                     *)
(* kept in canonical form, so that equal values are equal records.          *)
(* 32-bit words of the generators are pairs <<hi, lo>> of 16-bit halves.    *)
(***************************************************************************)
EXTENDS Integers, Sequences, FiniteSets, TLC

\* ------------------------------------------------------------------ bounds
\* Operations of one Economy history (SpecEconomy).
MaxOps == 6
\* Bet selector steps above BET_MIN that the model offers.
MaxBetSteps == 1
\* Default-multiplier cards of one round in SpecDefaultRound.
MaxDefaultCards == 46

\* Calls made on a random source (SpecRng).
MaxDraws == 2
\* Values the environment clock takes between calls (SpecRng).
MaxClock == 1
\* drawCard calls on one generator (SpecCards).
MaxCards == 8
\* sampleFailAtLike calls on one generator (SpecSampler).
MaxSamples == 5

\* A draw of the slot game is a multiple of 1 / DrawDen.  The denominator is
\* prime, so no draw falls exactly on a probability threshold.
DrawDen == 101
\* The random fill takes the FillEdge lowest and the FillEdge highest symbols.
FillEdge == 1

\* ------------------------------------------------- exact decimal arithmetic
\* Decimal digits are grouped by four.
DecBase == 10 * 10 * 10 * 10

RECURSIVE NatStrip(_)
NatStrip(a) ==
  IF a = <<>> THEN a
  ELSE IF a[Len(a)] = 0 THEN NatStrip(SubSeq(a, 1, Len(a) - 1)) ELSE a

NatDigit(a, i) == IF i <= Len(a) THEN a[i] ELSE 0

NatMaxLen(a, b) == IF Len(a) >= Len(b) THEN Len(a) ELSE Len(b)

RECURSIVE NatOfInt(_)
NatOfInt(n) == IF n = 0 THEN <<>> ELSE <<n % DecBase>> \o NatOfInt(n \div DecBase)

RECURSIVE NatAddFrom(_, _, _, _)
NatAddFrom(a, b, i, carry) ==
  IF i > NatMaxLen(a, b)
  THEN (IF carry = 0 THEN <<>> ELSE <<carry>>)
  ELSE LET s == NatDigit(a, i) + NatDigit(b, i) + carry
       IN  <<s % DecBase>> \o NatAddFrom(a, b, i + 1, s \div DecBase)

NatAdd(a, b) == NatStrip(NatAddFrom(a, b, 1, 0))

\* a - b for a >= b.
RECURSIVE NatSubFrom(_, _, _, _)
NatSubFrom(a, b, i, borrow) ==
  IF i > Len(a) THEN <<>>
  ELSE LET s == a[i] - NatDigit(b, i) - borrow
       IN  IF s < 0 THEN <<s + DecBase>> \o NatSubFrom(a, b, i + 1, 1)
                    ELSE <<s>> \o NatSubFrom(a, b, i + 1, 0)

NatSub(a, b) == NatStrip(NatSubFrom(a, b, 1, 0))

RECURSIVE NatCmpFrom(_, _, _)
NatCmpFrom(a, b, i) ==
  IF i = 0 THEN 0
  ELSE IF a[i] < b[i] THEN -1
  ELSE IF a[i] > b[i] THEN 1
  ELSE NatCmpFrom(a, b, i - 1)

\* -1, 0, 1 as a < b, a = b, a > b (both stripped).
NatCmp(a, b) ==
  IF Len(a) < Len(b) THEN -1
  ELSE IF Len(a) > Len(b) THEN 1
  ELSE NatCmpFrom(a, b, Len(a))

\* a * k for one digit k.
RECURSIVE NatMulFrom(_, _, _, _)
NatMulFrom(a, k, i, carry) ==
  IF i > Len(a)
  THEN (IF carry = 0 THEN <<>> ELSE <<carry>>)
  ELSE LET p == a[i] * k + carry
       IN  <<p % DecBase>> \o NatMulFrom(a, k, i + 1, p \div DecBase)

NatShift(a, n) == IF a = <<>> THEN a ELSE [i \in 1..n |-> 0] \o a

\* acc + a * (the digits of b from the i-th on), the sum kept evaluated.
RECURSIVE NatMulAcc(_, _, _, _)
NatMulAcc(a, b, i, acc) ==
  IF Len(acc) >= 0 /\ i > Len(b) THEN acc
  ELSE NatMulAcc(a, b, i + 1,
                 NatAdd(acc, NatShift(NatStrip(NatMulFrom(a, b[i], 1, 0)), i - 1)))

\* The shorter factor is the one taken digit by digit.
NatMul(a, b) ==
  IF Len(b) <= Len(a) THEN NatMulAcc(a, b, 1, <<>>) ELSE NatMulAcc(b, a, 1, <<>>)

DecZero == [neg |-> FALSE, m |-> <<>>, e |-> 0]

RECURSIVE DecNorm(_)
DecNorm(d) ==
  IF d.m = <<>> THEN DecZero
  ELSE IF d.e > 0 /\ d.m[1] = 0
       THEN DecNorm([d EXCEPT !.m = Tail(d.m), !.e = d.e - 1])
       ELSE d

\* n / 10^(4e) for an integer n.
DecFrac(n, e) ==
  DecNorm([neg |-> n < 0, m |-> NatOfInt(IF n < 0 THEN -n ELSE n), e |-> e])

DecInt(n) == DecFrac(n, 0)

DecNeg(x) == IF x.m = <<>> THEN x ELSE [x EXCEPT !.neg = ~x.neg]

DecAdd(x, y) ==
  LET e  == IF x.e >= y.e THEN x.e ELSE y.e
      xm == NatShift(x.m, e - x.e)
      ym == NatShift(y.m, e - y.e)
      c  == NatCmp(xm, ym)
  IN  IF x.neg = y.neg
      THEN DecNorm([neg |-> x.neg, m |-> NatAdd(xm, ym), e |-> e])
      ELSE IF c = 0 THEN DecZero
      ELSE IF c > 0 THEN DecNorm([neg |-> x.neg, m |-> NatSub(xm, ym), e |-> e])
      ELSE DecNorm([neg |-> y.neg, m |-> NatSub(ym, xm), e |-> e])

DecSub(x, y) == DecAdd(x, DecNeg(y))

DecMul(x, y) ==
  DecNorm([neg |-> x.neg # y.neg, m |-> NatMul(x.m, y.m), e |-> x.e + y.e])

DecSign(x) == IF x.m = <<>> THEN 0 ELSE IF x.neg THEN -1 ELSE 1

DecLe(x, y) == DecSign(DecSub(x, y)) <= 0

DecLt(x, y) == DecSign(DecSub(x, y)) < 0

\* Math.min
DecMin(x, y) == IF DecLe(x, y) THEN x ELSE y

\* x^n, by squaring.
RECURSIVE DecPow(_, _)
DecPow(x, n) ==
  IF n = 0 THEN DecInt(1)
  ELSE LET h == DecPow(x, n \div 2)
       IN  IF n % 2 = 0 THEN DecMul(h, h) ELSE DecMul(DecMul(h, h), x)

\* The product of a sequence of decimals, by halves.
RECURSIVE DecProd(_)
DecProd(s) ==
  IF s = <<>> THEN DecInt(1)
  ELSE IF Len(s) = 1 THEN s[1]
  ELSE LET k == Len(s) \div 2
       IN  DecMul(DecProd(SubSeq(s, 1, k)), DecProd(SubSeq(s, k + 1, Len(s))))

\* ------------------------------------------------ IEEE double arithmetic
\* The ladder tables are built with JavaScript divisions, whose results are
\* rounded to the nearest double.  A double is m * 2^e with 2^52 <= m < 2^53
\* (m a natural number in the digit representation above), or zero.
RECURSIVE NatPow2(_)
NatPow2(k) ==
  IF k = 0 THEN <<1>>
  ELSE IF k % 2 = 0 THEN LET h == NatPow2(k \div 2) IN NatMul(h, h)
  ELSE LET h == NatPow2(k - 1) IN NatAdd(h, h)

\* 10^k
NatPow10(k) == NatShift(NatOfInt(10^(k % 4)), k \div 4)

\* The largest digit k in lo..hi with b * k <= a, given b * lo <= a.
RECURSIVE NatDigitFit(_, _, _, _)
NatDigitFit(a, b, lo, hi) ==
  IF lo = hi THEN lo
  ELSE LET mid == (lo + hi + 1) \div 2
       IN  IF NatCmp(NatStrip(NatMulFrom(b, mid, 1, 0)), a) <= 0
           THEN NatDigitFit(a, b, mid, hi)
           ELSE NatDigitFit(a, b, lo, mid - 1)

\* Long division: the quotient digits from the i-th down, r the remainder
\* so far and q the digits found.
RECURSIVE NatDivFrom(_, _, _, _)
NatDivFrom(r, b, i, q) ==
  IF i = 0 THEN [q |-> NatStrip(q), r |-> r]
  ELSE LET bs == NatShift(b, i - 1)
           k == NatDigitFit(r, bs, 0, DecBase - 1)
           rest == NatSub(r, NatStrip(NatMulFrom(bs, k, 1, 0)))
       IN  IF Len(rest) >= 0 THEN NatDivFrom(rest, b, i - 1, <<k>> \o q)
           ELSE [q |-> q, r |-> r]

\* Quotient and remainder of a by b > 0.
NatDivMod(a, b) ==
  IF NatCmp(a, b) < 0 THEN [q |-> <<>>, r |-> a]
  ELSE NatDivFrom(a, b, Len(a) - Len(b) + 1, <<>>)

\* a * 2^k for k >= 0, a unchanged for k < 0.
NatScale(a, k) == IF k > 0 THEN NatMul(a, NatPow2(k)) ELSE a

\* n >= d * 2^k
GeScaled(n, d, k) == NatCmp(NatScale(n, -k), NatScale(d, k)) >= 0

\* The e with d * 2^(e + 52) <= n < d * 2^(e + 53).
RECURSIVE FindExp(_, _, _)
FindExp(n, d, e) ==
  IF GeScaled(n, d, e + 53) THEN FindExp(n, d, e + 1)
  ELSE IF ~GeScaled(n, d, e + 52) THEN FindExp(n, d, e - 1)
  ELSE e

FloatZero == [m |-> <<>>, e |-> 0]

\* A mantissa of 2^53 is 2^52 with the next exponent.
FloatPack(m, e) ==
  IF m = NatPow2(53) THEN [m |-> NatPow2(52), e |-> e + 1] ELSE [m |-> m, e |-> e]

\* Round to nearest, ties to the even mantissa: dm is the quotient and the
\* remainder of the division by den, twice compares 2 * dm.r with den.
FloatRoundUp(dm, twice) == twice > 0 \/ (twice = 0 /\ dm.q[1] % 2 = 1)

FloatRound(dm, den, e) ==
  FloatPack(IF FloatRoundUp(dm, NatCmp(NatAdd(dm.r, dm.r), den))
            THEN NatAdd(dm.q, <<1>>) ELSE dm.q, e)

\* The double nearest to n / d with the exponent e of FindExp.
FloatAt(n, d, e) ==
  FloatRound(NatDivMod(NatScale(n, -e), NatScale(d, e)), NatScale(d, e), e)

\* The double nearest to n / d (ties to the even mantissa), for d > 0.
FloatOfRatio(n, d) ==
  IF n = <<>> THEN FloatZero ELSE FloatAt(n, d, FindExp(n, d, -52))

\* The numeric literal n / 10^k
FloatLit(n, k) == FloatOfRatio(NatOfInt(n), NatPow10(k))

\* x / y and x * y of JavaScript numbers
FloatDiv(x, y) == FloatOfRatio(NatScale(x.m, x.e - y.e), NatScale(y.m, y.e - x.e))

FloatMul(x, y) ==
  FloatOfRatio(NatScale(NatMul(x.m, y.m), x.e + y.e), NatPow2(IF x.e + y.e < 0 THEN -(x.e + y.e) ELSE 0))

\* -1, 0, 1 as x < y, x = y, x > y
FloatCmp(x, y) ==
  IF x.m = <<>> \/ y.m = <<>>
  THEN (IF x.m = y.m THEN 0 ELSE IF x.m = <<>> THEN -1 ELSE 1)
  ELSE NatCmp(NatScale(x.m, x.e - y.e), NatScale(y.m, y.e - x.e))

\* |x - y| <= |y| * 2^-k
FloatNear(x, y, k) ==
  LET xs == NatScale(x.m, x.e - y.e)
      ys == NatScale(y.m, y.e - x.e)
      diff == IF NatCmp(xs, ys) >= 0 THEN NatSub(xs, ys) ELSE NatSub(ys, xs)
  IN  NatCmp(NatScale(diff, k), ys) <= 0

\* x + y of JavaScript numbers (both >= 0)
FloatAdd(x, y) ==
  LET e == IF x.e <= y.e THEN x.e ELSE y.e
      s == NatAdd(NatScale(x.m, x.e - e), NatScale(y.m, y.e - e))
  IN  FloatOfRatio(NatScale(s, e), NatPow2(IF e < 0 THEN -e ELSE 0))

\* x - y of JavaScript numbers, for x >= y >= 0
FloatDiff(x, y) ==
  LET e == IF x.e <= y.e THEN x.e ELSE y.e
      s == NatSub(NatScale(x.m, x.e - e), NatScale(y.m, y.e - e))
  IN  FloatOfRatio(NatScale(s, e), NatPow2(IF e < 0 THEN -e ELSE 0))

\* x - y of JavaScript numbers (both >= 0); a negative difference carries
\* the field neg.
FloatSub(x, y) ==
  IF FloatCmp(x, y) >= 0 THEN FloatDiff(x, y)
  ELSE [m |-> FloatDiff(y, x).m, e |-> FloatDiff(y, x).e, neg |-> TRUE]

\* -1, 0, 1 as x < 0, x = 0, x > 0
FloatSign(x) ==
  IF "neg" \in DOMAIN x THEN -1 ELSE IF x.m = <<>> THEN 0 ELSE 1

\* The value of a number below 2^31 held in digits.
RECURSIVE NatToInt(_)
NatToInt(a) == IF a = <<>> THEN 0 ELSE a[1] + DecBase * NatToInt(Tail(a))

\* x.toFixed(2), in hundredths: the integer n with n / 100 nearest to x, the
\* larger one of two.
ToFixed2(x) ==
  LET num == NatAdd(NatMul(NatScale(x.m, IF x.e < 0 THEN 1 ELSE x.e + 1), NatOfInt(100)),
                    NatPow2(IF x.e < 0 THEN -x.e ELSE 0))
      den == NatPow2(IF x.e < 0 THEN 1 - x.e ELSE 1)
  IN  NatToInt(NatDivMod(num, den).q)

\* ------------------------------------------------------- 32-bit words
\* A word is <<hi, lo>>, two 16-bit halves: TLC's integers are 32-bit signed.
Half == 2^16

RECURSIVE BitXor(_, _, _)
BitXor(a, b, n) ==
  IF n = 0 THEN 0
  ELSE (((a % 2) + (b % 2)) % 2) + 2 * BitXor(a \div 2, b \div 2, n - 1)

RECURSIVE BitOr(_, _, _)
BitOr(a, b, n) ==
  IF n = 0 THEN 0
  ELSE (IF (a % 2) + (b % 2) > 0 THEN 1 ELSE 0) + 2 * BitOr(a \div 2, b \div 2, n - 1)

WordZero == <<0, 0>>

\* x + y and its carry out of 32 bits.
Add32(x, y) ==
  LET lo == x[2] + y[2]
  IN  <<(x[1] + y[1] + (lo \div Half)) % Half, lo % Half>>

Carry32(x, y) == (x[1] + y[1] + ((x[2] + y[2]) \div Half)) \div Half

\* x ^ y
Xor32(x, y) == <<BitXor(x[1], y[1], 16), BitXor(x[2], y[2], 16)>>

\* x | k for k < 2^16
Or32(x, k) == <<x[1], BitOr(x[2], k, 16)>>

\* x >>> n for 0 < n < 16
Shr32(x, n) ==
  <<x[1] \div (2^n), (x[2] \div (2^n)) + (x[1] % (2^n)) * (2^(16 - n))>>

\* 2^32 - x modulo 2^32
Neg32(x) == Add32(<<Half - 1 - x[1], Half - 1 - x[2]>>, <<0, 1>>)

\* The low and the high half of the 32-bit product of two halves.
MulLo16(a, b) == ((a * (b % 256)) + ((a * (b \div 256)) % 256) * 256) % Half

MulHi16(a, b) ==
  (((a * (b % 256)) + ((a * (b \div 256)) % 256) * 256) \div Half)
    + ((a * (b \div 256)) \div 256)

\* Math.imul: the low 32 bits of x * y.
Imul32(x, y) ==
  <<(MulHi16(x[2], y[2]) + MulLo16(x[1], y[2]) + MulLo16(x[2], y[1])) % Half,
    MulLo16(x[2], y[2])>>

\* ---------------------------------------------------- random sources
VARIABLES
  \* which Rng class, the seed given to the constructor, the state the
  \* constructor left
  rngImpl, rngSeed, rngInit,
  \* two instances built from that seed, the calls made on the first, and
  \* what each instance has returned so far (the second repeats the calls)
  rngA, rngB, script, outA, outB,
  \* the environment the process runs in (wall clock, Math.random)
  clock

rngVars == <<rngImpl, rngSeed, rngInit, rngA, rngB, script, outA, outB, clock>>

\* A JavaScript number given as a seed: NaN, an infinity, or
\* sign x (k * 2^32 + w [+ 1/2]).
SeedNum(neg, k, w, frac) ==
  [kind |-> "num", neg |-> neg, k |-> k, w |-> w, frac |-> frac]
SeedNaN == [kind |-> "nan", neg |-> FALSE, k |-> 0, w |-> WordZero, frac |-> FALSE]
SeedInf == [kind |-> "inf", neg |-> FALSE, k |-> 0, w |-> WordZero, frac |-> FALSE]

\* 0, 1, 42, -1, -42, 1/2, 2^31, 2^32 - 1, 2^32, 2^32 + 7, -2^32, NaN, Infinity,
\* 1857829838, 3543772583, 2463401483
Seeds ==
  { SeedNum(FALSE, 0, <<0, 0>>, FALSE), SeedNum(FALSE, 0, <<0, 1>>, FALSE),
    SeedNum(FALSE, 0, <<0, 42>>, FALSE), SeedNum(TRUE, 0, <<0, 1>>, FALSE),
    SeedNum(TRUE, 0, <<0, 42>>, FALSE), SeedNum(FALSE, 0, <<0, 0>>, TRUE),
    SeedNum(FALSE, 0, <<Half \div 2, 0>>, FALSE),
    SeedNum(FALSE, 0, <<Half - 1, Half - 1>>, FALSE),
    SeedNum(FALSE, 1, <<0, 0>>, FALSE), SeedNum(FALSE, 1, <<0, 7>>, FALSE),
    SeedNum(TRUE, 1, <<0, 0>>, FALSE), SeedNaN, SeedInf,
    \* the states whose next draw is the largest (Rng.ts: 2^32 - 2, slot
    \* variant: 2^32 - 1) and the smallest (0) a draw can be
    SeedNum(FALSE, 0, <<28348, 15310>>, FALSE),
    SeedNum(FALSE, 0, <<54073, 44455>>, FALSE),
    SeedNum(FALSE, 0, <<37588, 34315>>, FALSE) }

\* ECMAScript ToUint32: NaN and the infinities give 0; otherwise truncate
\* and reduce modulo 2^32.
ToUint32(x) ==
  IF x.kind # "num" THEN WordZero
  ELSE IF x.neg THEN Neg32(x.w) ELSE x.w

\* ECMAScript ToInt32: ToUint32, read as a two's-complement number.
ToInt32(x) ==
  LET u == ToUint32(x)
  IN  IF u[1] >= (Half \div 2) THEN SeedNum(TRUE, 0, Neg32(u), FALSE)
                             ELSE SeedNum(FALSE, 0, u, FALSE)

\* 0x6d2b79f5
MULBERRY_INC == <<27947, 31221>>

\* A generator's stored state, k * 2^32 + w.
RngState(k, w) == [k |-> k, w |-> w]

\* Rng.ts: this.s = (seed >>> 0) || 1
CardSeedState(seed) ==
  LET u == ToUint32(seed)
  IN  RngState(0, IF u = WordZero THEN <<0, 1>> ELSE u)

\* slot Rng: this.state = (seed | 0) >>> 0
SlotSeedState(seed) == RngState(0, ToUint32(ToInt32(seed)))

RngConstruct(impl, seed) ==
  IF impl = "card" THEN CardSeedState(seed) ELSE SlotSeedState(seed)

\* Rng.ts next(): the state after the draw and the numerator of the result
\* (the result is t / 2^32).
CardDraw(st) ==
  LET s1 == Add32(st.w, MULBERRY_INC)
      t1 == Imul32(Xor32(s1, Shr32(s1, 15)), Or32(s1, 1))
      t2 == Add32(t1, Imul32(Xor32(t1, Shr32(t1, 7)), Or32(t1, 61)))
  IN  [st |-> RngState(0, s1), t |-> Xor32(t2, Shr32(t2, 14))]

\* slot Rng nextFloat(): state += 0x6d2b79f5 is stored as it is; only the
\* working copy z is reduced by >>> 0.
SlotDraw(st) ==
  LET z  == Add32(st.w, MULBERRY_INC)
      z1 == Imul32(Xor32(z, Shr32(z, 15)), Or32(z, 1))
      z2 == Xor32(z1, Add32(z1, Imul32(Xor32(z1, Shr32(z1, 7)), Or32(z1, 61))))
  IN  [st |-> RngState(st.k + Carry32(st.w, MULBERRY_INC), z),
       t |-> Xor32(z2, Shr32(z2, 14))]

\* A draw that mixes the wall clock into the state it starts from.
RngDrawClock(impl, st) ==
  LET c == RngState(st.k, Add32(st.w, <<0, clock>>))
  IN  IF impl = "card" THEN CardDraw(c) ELSE SlotDraw(c)

RngDraw(impl, st) == IF impl = "card" THEN CardDraw(st) ELSE SlotDraw(st)

\* Math.round in the place of Math.floor.
RoundScale(t, max) ==
  ((t[1] * max) + ((t[2] * max) \div Half) + (Half \div 2)) \div Half

\* Math.floor((t / 2^32) * max) for 0 < max < 2^15
FloorScale(t, max) == ((t[1] * max) + ((t[2] * max) \div Half)) \div Half

\* t / 2^32 < n / d for 0 < d < 2^15 and 0 <= n < 2^15
BelowProb(t, n, d) == (t[1] * d) + ((t[2] * d) \div Half) < n * Half

\* The calls a random source offers: next / nextFloat, nextInt(max),
\* nextBool(n / d), pick(arr).
CallNext == [op |-> "next", max |-> 0, n |-> 0, d |-> 1, arr |-> <<>>]
CallNextInt(max) == [op |-> "nextInt", max |-> max, n |-> 0, d |-> 1, arr |-> <<>>]
CallNextBool(n, d) == [op |-> "nextBool", max |-> 0, n |-> n, d |-> d, arr |-> <<>>]
CallPick(arr) == [op |-> "pick", max |-> 0, n |-> 0, d |-> 1, arr |-> arr]

\* What the call returns, from the draw's numerator t.
RngResult(call, t) ==
  CASE call.op = "next" -> [op |-> "next", val |-> t]
    [] call.op = "nextInt" -> [op |-> "nextInt", val |-> FloorScale(t, call.max)]
    [] call.op = "nextBool" -> [op |-> "nextBool", val |-> BelowProb(t, call.n, call.d)]
    [] call.op = "pick" ->
         [op |-> "pick", val |-> call.arr[FloorScale(t, Len(call.arr)) + 1]]

\* The calls each class has; the arguments are those the games pass.
RngCalls(impl) ==
  IF impl = "card"
  THEN {CallNext, CallNextInt(1), CallNextInt(10), CallNextInt(Half \div 2 - 1),
        CallNextBool(15, 100),
        CallPick(<<"safe_1", "safe_2", "safe_3", "safe_4">>)}
  ELSE {CallNext, CallNextInt(1), CallNextInt(10), CallNextInt(Half \div 2 - 1)}

\* ------------------------------------------------------- slot game
VARIABLES
  \* the SlotConfig of the session
  slotConfig,
  \* where the spin is: "idle", "picked" (outcome decided), "built"
  spinPhase,
  \* the Outcome decided by pickOutcome
  outcome,
  \* the grid as randomly filled (step 1), the grid buildFinalGrid ends
  \* with, and whether its assertion threw
  fill, grid, thrown

slotVars == <<slotConfig, spinPhase, outcome, fill, grid, thrown>>

SYMBOLS_COUNT == 10
\* targetRtp, in percent
TARGET_RTP == 95

Volatilities == {"LOW", "MED", "HIGH"}

SlotConfigs ==
  [rows : {3, 4}, cols : {3, 4}, symbolsCount : {SYMBOLS_COUNT},
   targetRtp : {TARGET_RTP}, volatility : Volatilities]

\* hitRate and match4Share in percent, tierMultipliers in tenths.
BASE_PROFILES ==
  [LOW  |-> [hitRate |-> 55, match4Share |-> 12,
             tierMultipliers |-> <<10, 12, 15, 20, 30, 50>>,
             tierWeights     |-> <<40, 25, 18, 10, 5, 2>>],
   MED  |-> [hitRate |-> 35, match4Share |-> 25,
             tierMultipliers |-> <<10, 15, 20, 30, 50, 80, 120>>,
             tierWeights     |-> <<28, 22, 18, 13, 10, 6, 3>>],
   HIGH |-> [hitRate |-> 20, match4Share |-> 40,
             tierMultipliers |-> <<12, 20, 40, 80, 150, 300, 600>>,
             tierWeights     |-> <<22, 18, 16, 14, 12, 10, 8>>]]

RECURSIVE SeqSum(_)
SeqSum(q) == IF q = <<>> THEN 0 ELSE q[1] + SeqSum(Tail(q))

\* A controller that scales by the plain mean of the base multipliers.
ProbabilityControllerPlainMean(config) ==
  LET base == BASE_PROFILES[config.volatility]
      pWin == base.hitRate
      pMatch4 == IF config.cols = 4 THEN pWin * base.match4Share ELSE 0
  IN  [pWin |-> pWin,
       pLose |-> 100 - pWin,
       pMatch4 |-> pMatch4,
       pMatch3 |-> pWin * 100 - pMatch4,
       weights |-> base.tierWeights,
       normalizedMults |->
         [i \in 1..Len(base.tierMultipliers) |->
            <<base.tierMultipliers[i] * config.targetRtp * Len(base.tierMultipliers),
              pWin * SeqSum(base.tierMultipliers)>>]]

\* new ProbabilityController(config).  pWin and pLose are in percent,
\* pMatch3 and pMatch4 in 1/10000; a normalized multiplier m * scale is the
\* fraction <<numerator, denominator>>.
ProbabilityController(config) ==
  LET base == BASE_PROFILES[config.volatility]
      pWin == base.hitRate
      pMatch4 == IF config.cols = 4 THEN pWin * base.match4Share ELSE 0
      totalWeight == SeqSum(base.tierWeights)
      \* avgBaseMult = multSum / (10 * totalWeight)
      multSum == SeqSum([i \in 1..Len(base.tierWeights) |->
                           base.tierMultipliers[i] * base.tierWeights[i]])
  IN  [pWin |-> pWin,
       pLose |-> 100 - pWin,
       pMatch4 |-> pMatch4,
       pMatch3 |-> pWin * 100 - pMatch4,
       weights |-> base.tierWeights,
       normalizedMults |->
         [i \in 1..Len(base.tierMultipliers) |->
            <<base.tierMultipliers[i] * config.targetRtp * totalWeight,
              pWin * multSum>>]]

\* The values nextFloat() can return: u / DrawDen.
Draws == 0..(DrawDen - 1)

\* rng.nextInt(max) on the draw u
DrawInt(u, max) == (u * max) \div DrawDen

RECURSIVE TierScan(_, _, _, _)
TierScan(u, weights, i, cum) ==
  IF i > Len(weights) THEN Len(weights)
  ELSE IF u * SeqSum(weights) < (cum + weights[i]) * DrawDen THEN i
  ELSE TierScan(u, weights, i + 1, cum + weights[i])

\* pickTierMult on the draw u: r = u * totalWeight, then the linear scan.
pickTierMult(pc, u) == pc.normalizedMults[TierScan(u, pc.weights, 1, 0)]

\* A pick that compares the second roll with pMatch4 itself.
pickOutcomeShareOfAll(config, pc, u1, u2, u3, u4) ==
  LET paylineRow == config.rows \div 2
  IN  IF u1 * 100 < pc.pLose * DrawDen
      THEN [winKind |-> "LOSE", payoutMult |-> <<0, 1>>, paylineRow |-> paylineRow]
      ELSE [winKind |-> IF config.cols = 3 THEN "MATCH_3"
                        ELSE IF u2 * 10000 < pc.pMatch4 * DrawDen
                             THEN "MATCH_4" ELSE "MATCH_3",
            symbolId |-> DrawInt(u4, config.symbolsCount),
            payoutMult |-> pickTierMult(pc, u3),
            paylineRow |-> paylineRow]

\* pickOutcome on the draws u1 (primary roll), u2 (win kind; drawn only when
\* cols = 4), u3 (tier) and u4 (symbol).  A losing outcome has no symbolId.
pickOutcome(config, pc, u1, u2, u3, u4) ==
  LET paylineRow == config.rows \div 2
  IN  IF u1 * 100 < pc.pLose * DrawDen
      THEN [winKind |-> "LOSE", payoutMult |-> <<0, 1>>, paylineRow |-> paylineRow]
      ELSE [winKind |-> IF config.cols = 3 THEN "MATCH_3"
                        ELSE IF u2 * pc.pWin * 100 < pc.pMatch4 * DrawDen
                             THEN "MATCH_4" ELSE "MATCH_3",
            symbolId |-> DrawInt(u4, config.symbolsCount),
            payoutMult |-> pickTierMult(pc, u3),
            paylineRow |-> paylineRow]

\* The outcomes pickOutcome produces under the config, over all draws.  The
\* tier and the symbol are drawn independently of the first two rolls, so
\* one pair of rolls is taken for each win kind they can decide.
PossibleOutcomes(config) ==
  LET pc == ProbabilityController(config)
      KindOf(d) == pickOutcome(config, pc, d[1], d[2], 0, 0).winKind
      rolls == {CHOOSE d \in Draws \X Draws : KindOf(d) = k :
                  k \in {KindOf(d) : d \in Draws \X Draws}}
  IN  UNION {{pickOutcome(config, pc, d[1], d[2], u3, u4) :
                u3 \in Draws, u4 \in Draws} : d \in rolls}

\* An evaluation that also counts a run of three ending at the last column.
evaluatePaylineAnyRun(g, row, cols) ==
  LET r == g[row]
  IN  IF cols = 4 /\ r[0] = r[1] /\ r[1] = r[2] /\ r[2] = r[3] THEN "MATCH_4"
      ELSE IF r[0] = r[1] /\ r[1] = r[2] THEN "MATCH_3"
      ELSE IF cols = 4 /\ r[1] = r[2] /\ r[2] = r[3] THEN "MATCH_3"
      ELSE "LOSE"

\* evaluatePayline; a grid is a function from row to (column to symbol),
\* both counted from 0.
evaluatePayline(g, row, cols) ==
  LET r == g[row]
  IN  IF cols = 4 /\ r[0] = r[1] /\ r[1] = r[2] /\ r[2] = r[3] THEN "MATCH_4"
      ELSE IF r[0] = r[1] /\ r[1] = r[2] THEN "MATCH_3"
      ELSE "LOSE"

\* An assignment that writes to the first row.
SetCellFirstRow(g, row, col, v) == [g EXCEPT ![0] = (col :> v) @@ g[0]]

\* grid[row][col] = v
SetCell(g, row, col, v) == [g EXCEPT ![row] = (col :> v) @@ g[row]]

\* A fix that makes one change only.
fixPaylineOnce(g, row, cols) ==
  LET kind == evaluatePayline(g, row, cols)
  IN  IF kind = "MATCH_4" THEN SetCell(g, row, cols - 1, (g[row][cols - 1] + 1) % 10)
      ELSE IF kind = "MATCH_3" THEN SetCell(g, row, 2, (g[row][2] + 1) % 10)
      ELSE g

RECURSIVE FixLoop(_, _, _, _)
FixLoop(g, row, cols, iter) ==
  IF evaluatePayline(g, row, cols) # "LOSE" /\ iter < 50
  THEN LET kind == evaluatePayline(g, row, cols)
       IN  IF kind = "MATCH_4"
           THEN FixLoop(SetCell(g, row, cols - 1, (g[row][cols - 1] + 1) % 10),
                        row, cols, iter + 1)
           ELSE FixLoop(SetCell(g, row, 2, (g[row][2] + 1) % 10),
                        row, cols, iter + 1)
  ELSE g

fixPaylineForLose(g, row, cols) == FixLoop(g, row, cols, 0)

\* A loop that nudges the last cell of the payline whatever the match is.
RECURSIVE FixRunLastCell(_, _, _, _)
FixRunLastCell(g, row, cols, iter) ==
  IF evaluatePayline(g, row, cols) # "LOSE" /\ iter < 50
  THEN FixRunLastCell(SetCell(g, row, cols - 1, (g[row][cols - 1] + 1) % 10),
                      row, cols, iter + 1)
  ELSE [grid |-> g, iter |-> iter]

\* The while loop of fixPaylineForLose with its counter: the grid and the
\* value of iter when the loop stops.
RECURSIVE FixRun(_, _, _, _)
FixRun(g, row, cols, iter) ==
  IF evaluatePayline(g, row, cols) # "LOSE" /\ iter < 50
  THEN LET kind == evaluatePayline(g, row, cols)
       IN  IF kind = "MATCH_4"
           THEN FixRun(SetCell(g, row, cols - 1, (g[row][cols - 1] + 1) % 10),
                       row, cols, iter + 1)
           ELSE FixRun(SetCell(g, row, 2, (g[row][2] + 1) % 10),
                       row, cols, iter + 1)
  ELSE [grid |-> g, iter |-> iter]

\* An enforcement that leaves the fourth cell of a three-of-a-kind as filled.
EnforceOutcomeKeepFourth(config, g, oc) ==
  LET row == oc.paylineRow
  IN  IF oc.winKind = "LOSE" THEN fixPaylineForLose(g, row, config.cols)
      ELSE IF oc.winKind = "MATCH_3"
      THEN SetCell(SetCell(SetCell(g, row, 0, oc.symbolId),
                           row, 1, oc.symbolId), row, 2, oc.symbolId)
      ELSE SetCell(SetCell(SetCell(SetCell(g, row, 0, oc.symbolId),
                                   row, 1, oc.symbolId), row, 2, oc.symbolId),
                   row, 3, oc.symbolId)

\* Step 2 of buildFinalGrid: the outcome enforced on the payline row.
EnforceOutcome(config, g, oc) ==
  LET row == oc.paylineRow
  IN  IF oc.winKind = "LOSE" THEN fixPaylineForLose(g, row, config.cols)
      ELSE IF oc.winKind = "MATCH_3"
      THEN LET g3 == SetCell(SetCell(SetCell(g, row, 0, oc.symbolId),
                                     row, 1, oc.symbolId), row, 2, oc.symbolId)
           IN  IF config.cols = 4 /\ g3[row][3] = oc.symbolId
               THEN SetCell(g3, row, 3, (oc.symbolId + 1) % config.symbolsCount)
               ELSE g3
      ELSE SetCell(SetCell(SetCell(SetCell(g, row, 0, oc.symbolId),
                                   row, 1, oc.symbolId), row, 2, oc.symbolId),
                   row, 3, oc.symbolId)

\* buildFinalGrid from the random fill of step 1: the grid it ends with and
\* whether the assertion of step 3 throws.
buildFinalGrid(config, randomFill, oc) ==
  LET g == EnforceOutcome(config, randomFill, oc)
  IN  [grid |-> g,
       thrown |-> evaluatePayline(g, oc.paylineRow, config.cols) # oc.winKind]

\* The symbols the random fill is taken from, and the fills: every payline
\* row over these symbols, the other rows each of one symbol.
FillSyms == {y \in 0..(SYMBOLS_COUNT - 1) : y < FillEdge \/ y >= SYMBOLS_COUNT - FillEdge}

GridFills(config, paylineRow) ==
  {[r \in 0..(config.rows - 1) |->
      IF r = paylineRow THEN pl ELSE [c \in 0..(config.cols - 1) |-> y]] :
     pl \in [0..(config.cols - 1) -> FillSyms], y \in {0, SYMBOLS_COUNT - 1}}

NoOutcome == [winKind |-> "NONE"]

SlotInitFor(config) ==
  /\ slotConfig = config
  /\ spinPhase = "idle"
  /\ outcome = NoOutcome
  /\ fill = <<>>
  /\ grid = <<>>
  /\ thrown = FALSE

\* ------------------------------------------------------ Economy constants
HOUSE_EDGE == DecFrac(9500, 1)
MAX_MULT == 500
NORMAL_SAFE_MULT == DecFrac(11499, 1)
VIRAL_BOOST_MULT == DecInt(10)
BET_MIN == 10
BET_MAX == 200
BET_STEP == 10
SWIPE_COST == BET_MIN
STARTING_BALANCE == 1000

\* The bets the selector offers, up to the model's bound.
Bets == {b \in BET_MIN..BET_MAX :
           \E k \in 0..MaxBetSteps : b = BET_MIN + k * BET_STEP}

\* onSafeCard's optional argument: omitted (undefined) or a number.
NoOverride == [given |-> FALSE, val |-> DecZero]
Override(d) == [given |-> TRUE, val |-> d]
\* The numbers offered as multiplierOverride: the two values the card
\* definitions carry (2.0 and 10.0), and -1 and 1 as a caller may pass them.
Overrides ==
  {Override(d) : d \in {DecInt(-1), DecInt(1), DecInt(2), VIRAL_BOOST_MULT}}

\* ---------------------------------------------------------- card draws
\* The card-draw constants of the two versions of OutcomeController and of
\* the Economy each was written against.
BOMB_PROB == DecFrac(1500, 1)
VIRAL_BOOST_PROB_GIVEN_SAFE == DecFrac(30, 1)
CardModel ==
  [BOMB_PROB |-> BOMB_PROB,
   VIRAL_BOOST_PROB_GIVEN_SAFE |-> VIRAL_BOOST_PROB_GIVEN_SAFE,
   VIRAL_BOOST_MULT |-> VIRAL_BOOST_MULT,
   NORMAL_SAFE_MULT |-> NORMAL_SAFE_MULT]
\* earlier version: q = 0.0196, VIRAL_BOOST_MULT = 2.0, MULT_PER_SWIPE = 1.1
EarlierCardModel ==
  [BOMB_PROB |-> DecFrac(1500, 1),
   VIRAL_BOOST_PROB_GIVEN_SAFE |-> DecFrac(196, 1),
   VIRAL_BOOST_MULT |-> DecInt(2),
   NORMAL_SAFE_MULT |-> DecFrac(11000, 1)]

CardModels == [current |-> CardModel, earlier |-> EarlierCardModel]

\* The numerator t of a draw, as a number.
WordDec(t) == DecAdd(DecMul(DecInt(t[1]), DecInt(Half)), DecInt(t[2]))

\* rng.nextBool(prob) on the draw t / 2^32
NextBool(t, prob) == DecLt(WordDec(t), DecMul(prob, DecMul(DecInt(Half), DecInt(Half))))

\* A drawCard that makes both draws before it looks at either.
drawCardBothDraws(model, st) ==
  LET d1 == CardDraw(st)
      d2 == CardDraw(d1.st)
  IN  IF NextBool(d1.t, model.BOMB_PROB) THEN [result |-> "bomb", st |-> d2.st]
      ELSE IF NextBool(d2.t, model.VIRAL_BOOST_PROB_GIVEN_SAFE)
      THEN [result |-> "viral_boost", st |-> d2.st]
      ELSE [result |-> "safe", st |-> d2.st]

\* drawCard on the generator state st: what it returns and the state it
\* leaves the generator in.  The second nextBool is called only when the
\* first returned false.
drawCard(model, st) ==
  LET d1 == CardDraw(st)
  IN  IF NextBool(d1.t, model.BOMB_PROB) THEN [result |-> "bomb", st |-> d1.st]
      ELSE LET d2 == CardDraw(d1.st)
           IN  IF NextBool(d2.t, model.VIRAL_BOOST_PROB_GIVEN_SAFE)
               THEN [result |-> "viral_boost", st |-> d2.st]
               ELSE [result |-> "safe", st |-> d2.st]

\* Seeds of the card game's generator: 1, 42, and the states whose first
\* draw is next below (3753793126) and next above (341207011) BOMB_PROB and
\* whose second draw is next below and next above each of the two
\* VIRAL_BOOST_PROB_GIVEN_SAFE (1754856380, 3120144485; 3743975379,
\* 3439453728).
CardSeeds ==
  { SeedNum(FALSE, 0, <<0, 1>>, FALSE), SeedNum(FALSE, 0, <<0, 42>>, FALSE),
    SeedNum(FALSE, 0, <<57278, 22118>>, FALSE),
    SeedNum(FALSE, 0, <<5206, 26595>>, FALSE),
    SeedNum(FALSE, 0, <<26776, 64444>>, FALSE),
    SeedNum(FALSE, 0, <<47609, 41061>>, FALSE),
    SeedNum(FALSE, 0, <<57128, 34771>>, FALSE),
    SeedNum(FALSE, 0, <<52481, 58912>>, FALSE) }

VARIABLES
  \* which version's constants apply
  ocVersion,
  \* the generator shared with the OutcomeController: its state now and
  \* before the last drawCard
  ocRng, ocPrev,
  \* what the last drawCard returned and the number of calls so far
  ocResult, ocCalls

ocVars == <<ocVersion, ocRng, ocPrev, ocResult, ocCalls>>

OcInitFor(version, seed) ==
  /\ ocVersion = version
  /\ ocRng = CardSeedState(seed)
  /\ ocPrev = CardSeedState(seed)
  /\ ocResult = "none"
  /\ ocCalls = 0

\* -------------------------------------------------------- ladder tables
RTP_TARGET == FloatLit(95, 2)
MAX_LEVEL == 22

\* CASHOUT_MULTIPLIERS[0..22], each literal n / 10^k as <<n, k>>.
CashoutLiterals ==
  << <<0, 0>>, <<9, 1>>, <<1, 0>>, <<136, 2>>, <<186, 2>>, <<25, 1>>, <<35, 1>>,
     <<47, 1>>, <<65, 1>>, <<88, 1>>, <<12, 0>>, <<165, 1>>, <<225, 1>>,
     <<305, 1>>, <<415, 1>>, <<57, 0>>, <<77, 0>>, <<106, 0>>, <<144, 0>>,
     <<196, 0>>, <<270, 0>>, <<365, 0>>, <<500, 0>> >>

CASHOUT_MULTIPLIERS ==
  [k \in 0..(Len(CashoutLiterals) - 1) |->
     FloatLit(CashoutLiterals[k + 1][1], CashoutLiterals[k + 1][2])]

\* A table of the inverse ratios.
SURVIVAL_PROBS_INVERSE ==
  [k \in 0..MAX_LEVEL |->
     IF k = 1 THEN FloatDiv(CASHOUT_MULTIPLIERS[2], RTP_TARGET)
     ELSE IF k >= 2 /\ k <= MAX_LEVEL - 1
          THEN FloatDiv(CASHOUT_MULTIPLIERS[k + 1], CASHOUT_MULTIPLIERS[k])
          ELSE FloatZero]

\* A table whose loop divides by the entry of the level itself.
SURVIVAL_PROBS_OFF_BY_ONE ==
  [k \in 0..MAX_LEVEL |->
     IF k = 1 THEN FloatDiv(RTP_TARGET, CASHOUT_MULTIPLIERS[2])
     ELSE IF k >= 2 /\ k <= MAX_LEVEL - 1
          THEN FloatDiv(CASHOUT_MULTIPLIERS[k - 1], CASHOUT_MULTIPLIERS[k])
          ELSE FloatZero]

\* _probs: new Array(MAX_LEVEL + 1).fill(0), then entry 1 and the loop over
\* k = 2..MAX_LEVEL - 1.
SURVIVAL_PROBS ==
  [k \in 0..MAX_LEVEL |->
     IF k = 1 THEN FloatDiv(RTP_TARGET, CASHOUT_MULTIPLIERS[2])
     ELSE IF k >= 2 /\ k <= MAX_LEVEL - 1
          THEN FloatDiv(CASHOUT_MULTIPLIERS[k], CASHOUT_MULTIPLIERS[k + 1])
          ELSE FloatZero]

\* The draw's numerator t as a number in digits.
WordNat(t) == NatAdd(NatMul(NatOfInt(t[1]), NatOfInt(Half)), NatOfInt(t[2]))

\* rng.nextBool(prob) for a double prob: t / 2^32 < prob. The quotient is
\* exact in a double, so the test is t < prob.m * 2^(prob.e + 32).
NextBoolFloat(t, prob) ==
  NatCmp(NatScale(WordNat(t), -(prob.e + 32)), NatScale(prob.m, prob.e + 32)) < 0

\* "Infinity", or the level a LIKE fails at.
Never == [never |-> TRUE, level |-> 0]
FailAt(k) == [never |-> FALSE, level |-> k]

\* A sampler whose loop runs up to MAX_LEVEL.
RECURSIVE SampleToMax(_, _, _)
SampleToMax(st, level, probs) ==
  IF level > MAX_LEVEL THEN [fail |-> Never, st |-> st]
  ELSE LET d == CardDraw(st)
       IN  IF ~NextBoolFloat(d.t, probs[level])
           THEN [fail |-> FailAt(level), st |-> d.st]
           ELSE SampleToMax(d.st, level + 1, probs)

sampleFailAtLikeToMax(st) == SampleToMax(st, 1, SURVIVAL_PROBS)

\* The loop of sampleFailAtLike from the given level on.
RECURSIVE SampleFrom(_, _, _)
SampleFrom(st, level, probs) ==
  IF level > MAX_LEVEL - 1 THEN [fail |-> Never, st |-> st]
  ELSE LET d == CardDraw(st)
       IN  IF ~NextBoolFloat(d.t, probs[level])
           THEN [fail |-> FailAt(level), st |-> d.st]
           ELSE SampleFrom(d.st, level + 1, probs)

\* sampleFailAtLike(rng): the level returned and the state the generator
\* is left in.
sampleFailAtLike(st) == SampleFrom(st, 1, SURVIVAL_PROBS)

\* calcPayout(bet, level)
calcPayout(b, level) == FloatMul(FloatLit(b, 0), CASHOUT_MULTIPLIERS[level])

\* Seeds of the ladder game's generator, one for each result of the
\* sampler: seed 141 never fails, 8 fails at level 1, 1 at level 2, ...
LadderSeedNumbers ==
  <<141, 8, 1, 6, 23, 5, 3, 10, 22, 24, 47, 138, 159, 58, 339, 117, 330, 566,
    2, 568, 2776, 657>>

LadderSeeds ==
  {SeedNum(FALSE, 0, <<0, LadderSeedNumbers[i]>>, FALSE) :
     i \in 1..Len(LadderSeedNumbers)}

VARIABLES
  \* the generator handed to sampleFailAtLike: its state now and before the
  \* last call
  smpRng, smpPrev,
  \* what the last call returned and the number of calls so far
  smpFail, smpCalls

smpVars == <<smpRng, smpPrev, smpFail, smpCalls>>

SmpInitFor(seed) ==
  /\ smpRng = CardSeedState(seed)
  /\ smpPrev = CardSeedState(seed)
  /\ smpFail = Never
  /\ smpCalls = 0

\* The generator state after n draws.
RECURSIVE AdvanceBy(_, _)
AdvanceBy(st, n) ==
  IF n = 0 THEN st
  ELSE LET d == CardDraw(st)
       IN  IF d.st.w[1] >= 0 THEN AdvanceBy(d.st, n - 1) ELSE st

\* ------------------------------------------------------------ ladder game
\* A game is a record: the fields of Game and of its Economy, the async
\* continuation it is waiting for, and what the page shows (the elements Ui
\* writes, the seed field, the last console line, the swipe lock).
MaxRounds == 1

\* The values Math.floor(Math.random() * 1e9) takes in the model: the
\* sampler never fails with 141, fails at level 1 with 8, at 2 with 1, at
\* 3 with 6.
RoundSeedNumbers == {141, 8, 1, 6}

\* What Math.random returns in the second game when it returns r in the
\* first: another seed, of another failure level.
TwinSeed(r) ==
  CASE r = 141 -> 6
    [] r = 6 -> 1
    [] r = 1 -> 8
    [] r = 8 -> 141
    [] OTHER -> r

\* The values the bet selector is set to.
LadderBets == {BET_MIN, BET_MAX}

\* new Rng(seed)
LadderRng(seed) == CardSeedState(SeedNum(FALSE, 0, <<0, seed>>, FALSE))

NoPreview == [mult |-> <<0, 0>>, payout |-> 0]

\* The page and the fields before the constructor runs: the seed field is
\* empty, the popup hidden.
BlankGame ==
  [state |-> "loading", busy |-> FALSE, pending |-> "none", timer |-> FALSE,
   timerPayout |-> FloatZero,
   balance |-> FloatLit(STARTING_BALANCE, 0), bet |-> BET_MIN,
   failAtLike |-> Never, level |-> 0, rng |-> LadderRng(1),
   seedText |-> 0, logged |-> 0, swipeLocked |-> FALSE, card |-> 0,
   betSelector |-> FALSE,
   balanceText |-> 0, hudShown |-> TRUE, levelText |-> 0,
   previewText |-> NoPreview, actionsShown |-> TRUE, collectOnly |-> FALSE,
   popupShown |-> FALSE, popupTitle |-> "", popupAmount |-> 0,
   popupBalance |-> 0, popupRetry |-> FALSE]

\* Economy (ladder)
ladderCanStartRound(g) == FloatCmp(g.balance, FloatLit(g.bet, 0)) >= 0

ladderStartRound(g) ==
  [g EXCEPT !.balance = FloatSub(g.balance, FloatLit(g.bet, 0))]

addWinnings(g, amount) == [g EXCEPT !.balance = FloatAdd(g.balance, amount)]

\* Ui
setBalance(g, value) == [g EXCEPT !.balanceText = ToFixed2(value)]

setLevelHud(g, level, preview) ==
  [g EXCEPT !.levelText = level, !.previewText = preview, !.hudShown = TRUE]

hideLevelHud(g) == [g EXCEPT !.hudShown = FALSE]

showLikeDislike(g, collectOnly) ==
  [g EXCEPT !.actionsShown = TRUE, !.collectOnly = collectOnly]

hideActions(g) == [g EXCEPT !.actionsShown = FALSE]

showPopupWin(g, cashoutAmount, bal) ==
  [g EXCEPT !.popupShown = TRUE, !.popupTitle = "NICE!",
            !.popupAmount = ToFixed2(cashoutAmount),
            !.popupBalance = ToFixed2(bal), !.popupRetry = FALSE]

showPopupLose(g, bal, b) ==
  [g EXCEPT !.popupShown = TRUE, !.popupTitle = "BUSTED",
            !.popupAmount = ToFixed2(FloatLit(b, 0)),
            !.popupBalance = ToFixed2(bal),
            !.popupRetry = (FloatCmp(bal, FloatLit(b, 0)) >= 0)]

hidePopup(g) == [g EXCEPT !.popupShown = FALSE]

\* Game.resetRng; r is what Math.floor(Math.random() * 1e9) returns. The
\* seed field holds a positive integer or is empty (0).
resetRng(g, r) ==
  LET seed == IF g.seedText = 0 THEN r ELSE g.seedText
  IN  [g EXCEPT !.seedText = seed, !.logged = seed, !.rng = LadderRng(seed)]

\* The text of the cash-out preview: the multiplier and payout.toFixed(2).
PreviewText(g) ==
  [mult |-> CashoutLiterals[g.level + 1],
   payout |-> ToFixed2(FloatMul(FloatLit(g.bet, 0), CASHOUT_MULTIPLIERS[g.level]))]

\* Game.setState
setState(g, next) ==
  LET s == [g EXCEPT !.state = next]
  IN  CASE next = "loading" -> [s EXCEPT !.swipeLocked = TRUE]
        [] next = "intro" ->
             [hideLevelHud(hideActions(hidePopup(s)))
                EXCEPT !.swipeLocked = FALSE, !.card = 0, !.betSelector = TRUE]
        [] next = "running" ->
             showLikeDislike(
               setLevelHud(setBalance([s EXCEPT !.swipeLocked = TRUE], s.balance),
                           s.level, PreviewText(s)),
               s.level = MAX_LEVEL)
        [] OTHER ->
             hideLevelHud(hideActions([s EXCEPT !.swipeLocked = TRUE]))

\* new Game(canvas), up to the first await of boot()
NewGame(r) ==
  [setState(hideLevelHud(hideActions(
     setBalance(resetRng(BlankGame, r), BlankGame.balance))), "loading")
     EXCEPT !.pending = "boot"]

\* boot(), after its awaits
bootDone(g) == [setState(g, "intro") EXCEPT !.pending = "none"]

\* A beginRound that starts the round with the balance as it is.
beginRoundNoRefill(g, r) ==
  LET g2 == resetRng(ladderStartRound(g), r)
      s == sampleFailAtLike(g2.rng)
  IN  [g2 EXCEPT !.failAtLike = s.fail, !.rng = AdvanceBy(s.st, MAX_LEVEL),
                 !.level = 1, !.card = 1, !.betSelector = FALSE,
                 !.pending = "begin"]

\* Game.beginRound up to its await; the 22 picks of video URLs each take
\* one draw.
beginRound(g, r) ==
  LET g1 == IF ~ladderCanStartRound(g)
            THEN setBalance([g EXCEPT !.balance = FloatLit(STARTING_BALANCE, 0)],
                            FloatLit(STARTING_BALANCE, 0))
            ELSE g
      g2 == resetRng(ladderStartRound(g1), r)
      s == sampleFailAtLike(g2.rng)
  IN  [g2 EXCEPT !.failAtLike = s.fail, !.rng = AdvanceBy(s.st, MAX_LEVEL),
                 !.level = 1, !.card = 1, !.betSelector = FALSE,
                 !.pending = "begin"]

\* Game.handleSwipeUp up to the await
handleSwipeUp(g, r) ==
  IF g.busy THEN g
  ELSE IF g.state = "intro" THEN beginRound([g EXCEPT !.busy = TRUE], r)
  ELSE g

\* beginRound and handleLike after transitionTo resolves, with the finally
\* block of the caller
transitionDone(g) ==
  [setState(g, "running") EXCEPT !.busy = FALSE, !.pending = "none"]

\* Game.triggerLose up to its await
triggerLose(g) ==
  LET s == setState(g, "lose")
  IN  [setBalance(s, s.balance) EXCEPT !.pending = "lose"]

\* A handleLike that never loses.
handleLikeAlwaysAdvance(g) ==
  IF g.busy \/ g.state # "running" THEN g
  ELSE [hideLevelHud(hideActions([g EXCEPT !.busy = TRUE]))
          EXCEPT !.level = g.level + 1, !.card = g.level + 1, !.pending = "like"]

\* Game.handleLike up to the await
handleLike(g) ==
  IF g.busy \/ g.state # "running" THEN g
  ELSE LET h == hideLevelHud(hideActions([g EXCEPT !.busy = TRUE]))
       IN  IF h.failAtLike = FailAt(h.level) THEN triggerLose(h)
           ELSE [h EXCEPT !.level = h.level + 1, !.card = h.level + 1,
                          !.pending = "like"]

\* triggerLose after delay(950), with the finally block of handleLike
loseDelayDone(g) ==
  [showPopupLose(g, g.balance, g.bet) EXCEPT !.busy = FALSE, !.pending = "none"]

\* A handleDislike without its guard on busy and on the state.
handleDislikeNoGuard(g) ==
  LET payout == calcPayout(g.bet, g.level)
      w == setState(addWinnings(g, payout), "win")
  IN  [setBalance(w, w.balance) EXCEPT !.timer = TRUE, !.timerPayout = payout]

\* Game.handleDislike (also the collect handler)
handleDislike(g) ==
  IF g.busy \/ g.state # "running" THEN g
  ELSE LET payout == calcPayout(g.bet, g.level)
           w == setState(addWinnings(g, payout), "win")
       IN  [setBalance(w, w.balance) EXCEPT !.timer = TRUE, !.timerPayout = payout]

\* the setTimeout callback of handleDislike
winPopupTimer(g) ==
  [showPopupWin(g, g.timerPayout, g.balance)
     EXCEPT !.timer = FALSE, !.timerPayout = FloatZero]

\* Game.handlePopupButton
handlePopupButton(g, r) ==
  LET g1 == IF FloatCmp(g.balance, FloatLit(g.bet, 0)) < 0
            THEN setBalance([g EXCEPT !.balance = FloatLit(STARTING_BALANCE, 0)],
                            FloatLit(STARTING_BALANCE, 0))
            ELSE g
  IN  setState(resetRng([g1 EXCEPT !.seedText = 0], r), "intro")

\* the bet selector's onChange
betChange(g, v) == [g EXCEPT !.bet = v]

\* the seed field's change listener, the field holding the text typed
ladderSeedChanged(g, typed) == resetRng([g EXCEPT !.seedText = typed], 0)

\* The seeds typed into the seed field of the ladder game.
LadderTypedSeeds == {8}

VARIABLES
  \* the game, and a second game the same player actions are applied to
  game, twin,
  \* the rounds begun, the last player action or continuation, and whether a
  \* LIKE has failed in one game and not in the other
  ldRounds, ldEvent, ldDiverged

ldVars == <<game, twin, ldRounds, ldEvent, ldDiverged>>

LdInitFor(ra, rb) ==
  /\ game = NewGame(ra)
  /\ twin = NewGame(rb)
  /\ ldRounds = 0
  /\ ldEvent = "new"
  /\ ldDiverged = FALSE

\* ----------------------------------------------- configuration tables
\* What the table constructions compute when the tables are other than the
\* shipped ones.  A missing array entry reads as undefined, and arithmetic
\* on undefined or on 0 / 0 gives NaN.  NaN is the fraction <<0, 0>> among
\* the fractions and a record that no finite double has among the doubles.
RatNaN == <<0, 0>>
FloatNaN == [m |-> <<>>, e |-> -1]

\* whether arr[i] is an entry of the JavaScript array held as a sequence
\* (index i counted from 0)
HasEntry(arr, i) == i >= 0 /\ i < Len(arr)

\* Uses of a constructed configuration that the model follows.
MaxUses == 2

\* Profiles a ProbabilityController may be built from: tier multipliers in
\* tenths, tier weights; the shipped MED profile is one of them.
ProfileTables ==
  {[tierMultipliers |-> m, tierWeights |-> w] :
     m \in {<<10, 15>>, <<10, 15, 20>>, BASE_PROFILES.MED.tierMultipliers},
     w \in {<<0, 0>>, <<3, 1>>, <<0, 0, 0>>, <<3, 2, 1>>, BASE_PROFILES.MED.tierWeights}}

ProfileOf(t) ==
  [hitRate |-> BASE_PROFILES.MED.hitRate,
   match4Share |-> BASE_PROFILES.MED.match4Share,
   tierMultipliers |-> t.tierMultipliers, tierWeights |-> t.tierWeights]

\* sum + m * base.tierWeights[i], the reduce of the constructor: the sum in
\* tenths, and whether it is NaN (a weight was undefined).
RECURSIVE MultSumFrom(_, _, _)
MultSumFrom(base, i, sum) ==
  IF i > Len(base.tierMultipliers) THEN [nan |-> FALSE, v |-> sum]
  ELSE IF ~HasEntry(base.tierWeights, i - 1) THEN [nan |-> TRUE, v |-> 0]
  ELSE MultSumFrom(base, i + 1,
                   sum + base.tierMultipliers[i] * base.tierWeights[i])

\* The ProbabilityController constructor on the profile base: no statement
\* of it throws.  avgBaseMult = multSum / (10 * totalWeight) is NaN when the
\* sum is NaN or both are 0, and then scale and every normalized multiplier
\* are NaN; otherwise a normalized multiplier is <<numerator, denominator>>.
ControllerFrom(base, config) ==
  LET pWin == base.hitRate
      pMatch4 == IF config.cols = 4 THEN pWin * base.match4Share ELSE 0
      totalWeight == SeqSum(base.tierWeights)
      multSum == MultSumFrom(base, 1, 0)
  IN  [thrown |-> FALSE,
       pWin |-> pWin,
       pLose |-> 100 - pWin,
       pMatch4 |-> pMatch4,
       pMatch3 |-> pWin * 100 - pMatch4,
       weights |-> base.tierWeights,
       normalizedMults |->
         [i \in 1..Len(base.tierMultipliers) |->
            IF multSum.nan \/ (multSum.v = 0 /\ totalWeight = 0) THEN RatNaN
            ELSE <<base.tierMultipliers[i] * config.targetRtp * totalWeight,
                   pWin * multSum.v>>]]

\* pickTierMult: r = u * totalWeight, r -= weights[i], return
\* normalizedMults[i] once r < 0, else the last normalized multiplier; the
\* index (from 0) that is read.
RECURSIVE TierIndexJs(_, _, _, _)
TierIndexJs(pc, u, i, cum) ==
  IF i > Len(pc.weights) THEN Len(pc.normalizedMults) - 1
  ELSE IF u * SeqSum(pc.weights) < (cum + pc.weights[i]) * DrawDen THEN i - 1
  ELSE TierIndexJs(pc, u, i + 1, cum + pc.weights[i])

\* win = bet * outcome.payoutMult for a bet of 1: NaN when the multiplier
\* read is undefined.
WinOf(pc, u) ==
  IF HasEntry(pc.normalizedMults, TierIndexJs(pc, u, 1, 0))
  THEN pc.normalizedMults[TierIndexJs(pc, u, 1, 0) + 1]
  ELSE RatNaN

\* Cash-out tables: CASHOUT_MULTIPLIERS cut after the entry of level n.
TableLevels == {MAX_LEVEL, MAX_LEVEL - 1, 3, 2}
CashoutTable(n) == [k \in 1..(n + 1) |-> CASHOUT_MULTIPLIERS[k - 1]]

\* table[i] / table[j]
EntryDiv(table, i, j) ==
  IF HasEntry(table, i) /\ HasEntry(table, j)
  THEN FloatDiv(table[i + 1], table[j + 1])
  ELSE FloatNaN

\* The construction of SURVIVAL_PROBS from the table: no statement throws.
SurvivalProbsFrom(table) ==
  [k \in 0..MAX_LEVEL |->
     IF k = 1 THEN IF HasEntry(table, 2) THEN FloatDiv(RTP_TARGET, table[3])
                   ELSE FloatNaN
     ELSE IF k >= 2 /\ k <= MAX_LEVEL - 1 THEN EntryDiv(table, k, k + 1)
          ELSE FloatZero]

\* sampleFailAtLike over the table probs; nextFloat() < NaN is false.
RECURSIVE SampleJs(_, _, _)
SampleJs(st, level, probs) ==
  IF level > MAX_LEVEL - 1 THEN Never
  ELSE IF probs[level] = FloatNaN THEN FailAt(level)
  ELSE IF ~NextBoolFloat(CardDraw(st).t, probs[level]) THEN FailAt(level)
  ELSE SampleJs(CardDraw(st).st, level + 1, probs)

VARIABLES
  \* "slot" or "ladder"; the tables the configuration is built from
  cfgGame, cfgTables,
  \* "declared", "constructed" or "rejected"; what the construction built
  cfgPhase, cfgBuilt,
  \* rounds or spins that used the configuration, and what the last one got
  cfgUses, cfgLast

cfgVars == <<cfgGame, cfgTables, cfgPhase, cfgBuilt, cfgUses, cfgLast>>

CfgInitFor(kind, tables) ==
  /\ cfgGame = kind
  /\ cfgTables = tables
  /\ cfgPhase = "declared"
  /\ cfgBuilt = <<>>
  /\ cfgUses = 0
  /\ cfgLast = <<>>

VARIABLES
  \* the four draws the last pickOutcome took, as numerators over DrawDen
  pkDraws

pkVars == <<pkDraws>>

VARIABLES
  \* the card game: the fields of Game, of its Economy and of SwipeInput,
  \* the continuation it is waiting for and what the page shows
  cardGame,
  \* the rounds begun and the last event delivered to the page
  cgRounds, cgEvent

cgVars == <<cardGame, cgRounds, cgEvent>>

VARIABLES
  \* a run of the ladder simulation, with the live ladder game played by
  \* the simulated strategy
  ladderSim,
  \* a run of the card-draw simulation, with the Economy driven by the
  \* same draws
  cardSim

simVars == <<ladderSim, cardSim>>

VARIABLES
  \* StateMachine: its state, the states a listener is registered for, the
  \* listener the last transition fired and the calls made so far
  fsmState, fsmListeners, fsmFired, fsmCalls

fsmVars == <<fsmState, fsmListeners, fsmFired, fsmCalls>>

VARIABLES
  \* Economy's fields
  balance, roundValue, cardCount, bet,
  \* the last Economy call, what it returned, and the calls so far
  lastOp, lastRet, nOps,
  \* history of the current round: multipliers applied since startRound,
  \* balance and bet when startRound was called, whether a round was started
  \* and not yet ended, how it ended, whether the bet field was written
  \* while it was open, the cashout calls since startRound, the roundValue
  \* at the first of them and the sum of what they returned
  hist, bal0, bet0, open, ended, betTouched, cashCount, firstGross, paid

ecoVars == <<balance, roundValue, cardCount, bet, lastOp, lastRet, nOps,
             hist, bal0, bet0, open, ended, betTouched, cashCount, firstGross,
             paid>>

vars == <<ecoVars, rngVars, slotVars, ocVars, smpVars, ldVars, cfgVars, pkVars,
         cgVars, simVars, fsmVars>>

\* What the actions of one part leave unchanged.
notEcoVars == <<rngVars, slotVars, ocVars, smpVars, ldVars, cfgVars, pkVars, cgVars,
  simVars, fsmVars>>
notRngVars == <<ecoVars, slotVars, ocVars, smpVars, ldVars, cfgVars, pkVars, cgVars,
  simVars, fsmVars>>
notSlotVars == <<ecoVars, rngVars, ocVars, smpVars, ldVars, cfgVars, pkVars, cgVars,
  simVars, fsmVars>>
notOcVars == <<ecoVars, rngVars, slotVars, smpVars, ldVars, cfgVars, pkVars, cgVars,
  simVars, fsmVars>>
notSmpVars == <<ecoVars, rngVars, slotVars, ocVars, ldVars, cfgVars, pkVars, cgVars,
  simVars, fsmVars>>
notLdVars == <<ecoVars, rngVars, slotVars, ocVars, smpVars, cfgVars, pkVars, cgVars,
  simVars, fsmVars>>
notPkVars == <<ecoVars, rngVars, slotVars, ocVars, smpVars, ldVars, cfgVars, cgVars,
  simVars, fsmVars>>
notCfgVars == <<ecoVars, rngVars, slotVars, ocVars, smpVars, ldVars, pkVars, cgVars,
  simVars, fsmVars>>
notCgVars == <<ecoVars, rngVars, slotVars, ocVars, smpVars, ldVars, cfgVars, pkVars,
  simVars, fsmVars>>
notSimVars == <<ecoVars, rngVars, slotVars, ocVars, smpVars, ldVars, cfgVars, pkVars,
  cgVars, fsmVars>>
notFsmVars == <<ecoVars, rngVars, slotVars, ocVars, smpVars, ldVars, cfgVars, pkVars,
  cgVars, simVars>>

\* ------------------------------------------------------------- Economy
EcoInit ==
  /\ balance = DecInt(STARTING_BALANCE)
  /\ roundValue = DecZero
  /\ cardCount = 0
  /\ bet = SWIPE_COST
  /\ lastOp = "new"
  /\ lastRet = DecZero
  /\ nOps = 0
  /\ hist = <<>>
  /\ bal0 = DecInt(STARTING_BALANCE)
  /\ bet0 = SWIPE_COST
  /\ open = FALSE
  /\ ended = "none"
  /\ betTouched = FALSE
  /\ cashCount = 0
  /\ firstGross = DecZero
  /\ paid = DecZero

canStartRound == DecLe(DecInt(bet), balance)

SeedValueNoEdge(b) == DecInt(b)

\* The value startRound seeds.
SeedValue(b) == DecMul(DecInt(b), HOUSE_EDGE)

\* The multiplier onSafeCard applies: multiplierOverride ?? NORMAL_SAFE_MULT.
SafeMult(ov) == IF ov.given THEN ov.val ELSE NORMAL_SAFE_MULT

SafeValueNoCap(v, mult, b) == DecMul(v, mult)

SafeValueCapBetMax(v, mult, b) == DecMin(DecMul(v, mult), DecInt(BET_MAX * MAX_MULT))

SafeValueEdgeAgain(v, mult, b) ==
  DecMin(DecMul(DecMul(v, mult), HOUSE_EDGE), DecInt(b * MAX_MULT))

\* roundValue after onSafeCard.
SafeValue(v, mult, b) == DecMin(DecMul(v, mult), DecInt(b * MAX_MULT))

CashoutBalanceNoCredit(bal, v) == bal

\* balance after cashout.
CashoutBalance(bal, v) == DecAdd(bal, v)

CashoutValueKept(v) == v

\* roundValue after cashout.
CashoutValue(v) == DecZero

BombValueKept(v) == v

\* roundValue after onBomb.
BombValue(v) == DecZero

\* ------------------------------------------------------------- card game
\* Rounds and cards per round that the model follows.
MaxGameRounds == 2
MaxGameCards == 3

\* The values Math.floor(Math.random() * 1e9) takes in the model.  With the
\* draws nextCard makes, the rounds they seed begin safe, safe, safe (4);
\* safe, safe, viral_boost (1); safe, bomb (2); bomb (25); viral_boost,
\* bomb (205).
GameSeedNumbers == {4, 1, 2, 25, 205}

\* The seeds typed into the seed field.
TypedSeeds == {1202}

\* new Rng(seed)
GameRng(seed) == CardSeedState(SeedNum(FALSE, 0, <<0, seed>>, FALSE))

\* The card definitions nextCard returns, by the file that defines them:
\* Card.ts, and the later variant of it.  Only the type and the
\* multiplierOverride of a card reach the economy.
CardFiles == {"Card.ts", "later"}
NoCard == [type |-> "none", multiplierOverride |-> NoOverride]
BOMB_CARD == [type |-> "bomb", multiplierOverride |-> NoOverride]
SafeCardDef == [type |-> "safe", multiplierOverride |-> NoOverride]
VIRAL_BOOST_CARD(file) ==
  [type |-> "viral_boost",
   multiplierOverride |->
     IF file = "Card.ts" THEN Override(DecInt(2)) ELSE Override(DecInt(10))]

\* The page and the fields before the constructor body runs.  drawn and
\* updates count the nextCard calls and the Economy.onSafeCard / onBomb
\* calls since the swipe handler in progress was entered, handlers the
\* handleSwipeUp calls that are past their guard and not yet through their
\* finally block, applied the multipliers onSafeCard has used since
\* startRound, credited the cashout calls since startRound, unedited the
\* generator the round would draw from had the seed field not been edited
\* since the round began, expected what drawCard returns on it.
BlankCardGame(file) ==
  [cards |-> file, state |-> "idle", busy |-> FALSE, pending |-> "none",
   handler |-> "none", card |-> NoCard, timer |-> FALSE, gross |-> DecZero,
   balance |-> DecInt(STARTING_BALANCE), roundValue |-> DecZero,
   cardCount |-> 0, bet |-> SWIPE_COST,
   rng |-> GameRng(1), seedText |-> 0, logged |-> 0,
   swipeLocked |-> FALSE, popupShown |-> FALSE, popupKind |-> "none",
   cashoutShown |-> FALSE,
   handlers |-> 0, drawn |-> 0, updates |-> 0, applied |-> <<>>,
   credited |-> 0, unedited |-> GameRng(1), expected |-> "none"]

\* Economy, on the game's economy fields
cardCanStartRound(g) == DecLe(DecInt(g.bet), g.balance)

cardStartRound(g) ==
  [g EXCEPT !.balance = DecSub(g.balance, DecInt(g.bet)),
            !.roundValue = SeedValue(g.bet), !.cardCount = 0,
            !.applied = <<>>, !.credited = 0]

cardOnSafeCard(g, ov) ==
  [g EXCEPT !.roundValue = SafeValue(g.roundValue, SafeMult(ov), g.bet),
            !.cardCount = g.cardCount + 1,
            !.updates = g.updates + 1,
            !.applied = Append(g.applied, SafeMult(ov))]

cardCashout(g) ==
  [g EXCEPT !.balance = CashoutBalance(g.balance, g.roundValue),
            !.roundValue = CashoutValue(g.roundValue), !.cardCount = 0,
            !.gross = g.roundValue, !.credited = g.credited + 1]

cardOnBomb(g) ==
  [g EXCEPT !.roundValue = BombValue(g.roundValue), !.cardCount = 0,
            !.updates = g.updates + 1]

\* Ui.showBottomBar({cashout}), Ui.showPopup*, Ui.hidePopup
showBottomBar(g, cashoutBtn) == [g EXCEPT !.cashoutShown = cashoutBtn]

showPopup(g, kind) == [g EXCEPT !.popupShown = TRUE, !.popupKind = kind]

cardHidePopup(g) == [g EXCEPT !.popupShown = FALSE]

\* Game.resetRng; r is what Math.floor(Math.random() * 1e9) returns. The
\* seed field holds a positive integer or is empty (0).
cardResetRng(g, r) ==
  LET seed == IF g.seedText = 0 THEN r ELSE g.seedText
  IN  [g EXCEPT !.seedText = seed, !.logged = seed, !.rng = GameRng(seed),
                !.unedited = GameRng(seed)]

\* Game.setState
cardSetState(g, next) ==
  LET s == [g EXCEPT !.state = next]
  IN  CASE next = "idle" -> [s EXCEPT !.swipeLocked = TRUE]
        [] next = "intro" ->
             showBottomBar(cardHidePopup([s EXCEPT !.swipeLocked = FALSE]), FALSE)
        [] next = "running" ->
             showBottomBar([s EXCEPT !.swipeLocked = FALSE], TRUE)
        [] next = "transitioning" ->
             showBottomBar([s EXCEPT !.swipeLocked = TRUE], FALSE)
        [] OTHER -> [s EXCEPT !.swipeLocked = TRUE]

\* new Game(canvas)
NewCardGame(file, r) ==
  cardSetState(
    showPopup(showBottomBar(cardResetRng(BlankCardGame(file), r), FALSE), "intro"),
    "idle")

\* ReelEngine.nextCard: drawCard, then one draw for the clip of a bomb or
\* viral_boost card, and two (the card of the pool, the clip) for a safe one.
nextCard(g) ==
  LET r == drawCard(CardModel, g.rng)
      u == drawCard(CardModel, g.unedited)
  IN  [g EXCEPT !.drawn = g.drawn + 1,
                !.unedited = AdvanceBy(u.st, IF u.result = "safe" THEN 2 ELSE 1),
                !.expected = u.result,
                !.rng = AdvanceBy(r.st, IF r.result = "safe" THEN 2 ELSE 1),
                !.card = CASE r.result = "bomb" -> BOMB_CARD
                           [] r.result = "viral_boost" -> VIRAL_BOOST_CARD(g.cards)
                           [] OTHER -> SafeCardDef]

\* Game.beginRound up to its await
cardBeginRound(g) ==
  LET g1 == IF ~cardCanStartRound(g)
            THEN [g EXCEPT !.balance = DecInt(STARTING_BALANCE)]
            ELSE g
  IN  [nextCard(cardSetState(cardStartRound(g1), "transitioning"))
         EXCEPT !.pending = "transition"]

\* An advanceCard that asks the reel for a card twice.
advanceCardDrawsAgain(g) ==
  IF g.state # "running" THEN g
  ELSE [nextCard(nextCard(cardSetState(g, "transitioning")))
          EXCEPT !.pending = "transition"]

\* Game.advanceCard up to its await
advanceCard(g) ==
  IF g.state # "running" THEN g
  ELSE [nextCard(cardSetState(g, "transitioning"))
          EXCEPT !.pending = "transition"]

\* the end of a handleSwipeUp branch: an advanceCard that returned without
\* awaiting, or the finally block after the awaited call
swipeHandled(g) ==
  IF g.pending = "none"
  THEN [g EXCEPT !.busy = FALSE, !.handler = "none", !.handlers = g.handlers - 1]
  ELSE g

\* Game.handleSwipeUp up to the await
cardHandleSwipeUp(g) ==
  IF g.busy THEN g
  ELSE IF g.state = "intro"
  THEN cardBeginRound([g EXCEPT !.busy = TRUE, !.handler = "beginRound",
                                !.handlers = g.handlers + 1,
                                !.drawn = 0, !.updates = 0])
  ELSE IF g.state = "running"
  THEN swipeHandled(
         advanceCard([g EXCEPT !.busy = TRUE, !.handler = "advanceCard",
                               !.handlers = g.handlers + 1,
                               !.drawn = 0, !.updates = 0]))
  ELSE g

\* SwipeInput: a gesture calls onSwipeUp unless the input is locked
swipeGesture(g) == IF g.swipeLocked THEN g ELSE cardHandleSwipeUp(g)

\* Game.triggerBomb up to its await
triggerBomb(g) ==
  [showBottomBar(cardOnBomb(cardSetState(g, "lose")), FALSE)
     EXCEPT !.pending = "delay"]

\* beginRound and advanceCard after transitionTo resolves
transitionResolved(g) ==
  IF g.card.type = "bomb" THEN triggerBomb(g)
  ELSE swipeHandled(
         [cardSetState(cardOnSafeCard(g, g.card.multiplierOverride), "running")
            EXCEPT !.pending = "none"])

\* triggerBomb after delay(950)
delayResolved(g) ==
  swipeHandled([showPopup(g, "lose") EXCEPT !.pending = "none"])

\* A handleCashout without its guard on the state.
handleCashoutAnyState(g) ==
  [showBottomBar(cardSetState(cardCashout(g), "win"), FALSE)
     EXCEPT !.timer = TRUE]

\* Game.handleCashout
handleCashout(g) ==
  IF g.state # "running" THEN g
  ELSE [showBottomBar(cardSetState(cardCashout(g), "win"), FALSE)
          EXCEPT !.timer = TRUE]

\* the setTimeout callback of handleCashout
cardWinPopupTimer(g) == [showPopup(g, "win") EXCEPT !.timer = FALSE]

\* Game.handlePopupButton
cardHandlePopupButton(g, r) ==
  LET g1 == IF DecLt(g.balance, DecInt(10))
            THEN [g EXCEPT !.balance = DecInt(STARTING_BALANCE)]
            ELSE g
  IN  cardSetState(cardResetRng([g1 EXCEPT !.seedText = 0], r), "intro")

\* the seed field's change listener, the field holding the text typed
seedChanged(g, typed) ==
  LET h == cardResetRng([g EXCEPT !.seedText = typed], 0)
  IN  IF g.state \in {"transitioning", "running"}
      THEN [h EXCEPT !.unedited = g.unedited]
      ELSE h

\* ------------------------------------------------------ ladder simulation
\* runSimulation(rounds, seed, cashoutAtLevel) of the ladder game, a record
\* of its locals.  pc is the loop it is at, iterations the passes through
\* the while loop in the round, returned what the round added to
\* totalReturned.
MaxSimRounds == 2

\* Seeds whose first rounds fail at levels 1, 2, 3, 18, 20, 21 and never
\* (the second round of 2776 and of 657 fails at 6, of 141 at 3).
SimSeedNumbers == {8, 1, 6, 2, 2776, 657, 141}

\* The values given for cashoutAtLevel.
Strategies == {0, 1, 2, 3, 4, MAX_LEVEL - 1, MAX_LEVEL, MAX_LEVEL + 1}

ladderRunSimulation(rounds, seed, cashoutAtLevel) ==
  [rounds |-> rounds, cashoutAtLevel |-> cashoutAtLevel,
   rng |-> LadderRng(seed), bet |-> BET_MIN,
   totalWagered |-> FloatZero, totalReturned |-> FloatZero,
   totalLevels |-> 0, wins |-> 0, losses |-> 0, r |-> 0,
   failAt |-> Never, level |-> 0, done |-> TRUE, pc |-> "for",
   iterations |-> 0, returned |-> FloatZero]

\* the body of the for loop up to the while loop
ladderSimRound(s) ==
  LET smp == sampleFailAtLike(s.rng)
  IN  [s EXCEPT !.totalWagered = FloatAdd(s.totalWagered, FloatLit(s.bet, 0)),
                !.failAt = smp.fail, !.rng = smp.st, !.level = 1,
                !.done = FALSE, !.pc = "while", !.iterations = 0,
                !.returned = FloatZero]

\* A pass through the while loop that looks at the failure level first.
ladderSimPassFailFirst(s) ==
  IF s.failAt = FailAt(s.level)
  THEN [s EXCEPT !.losses = s.losses + 1,
                 !.totalLevels = s.totalLevels + s.level,
                 !.done = TRUE, !.pc = "for", !.r = s.r + 1,
                 !.iterations = s.iterations + 1]
  ELSE IF s.level >= s.cashoutAtLevel \/ s.level = MAX_LEVEL
  THEN [s EXCEPT !.totalReturned =
                   FloatAdd(s.totalReturned, calcPayout(s.bet, s.level)),
                 !.returned = calcPayout(s.bet, s.level),
                 !.wins = s.wins + 1,
                 !.totalLevels = s.totalLevels + s.level,
                 !.done = TRUE, !.pc = "for", !.r = s.r + 1,
                 !.iterations = s.iterations + 1]
  ELSE [s EXCEPT !.level = s.level + 1, !.iterations = s.iterations + 1]

\* one pass through the while loop; the pass that sets done also leaves the
\* loop and counts the round (r++)
ladderSimPass(s) ==
  IF s.level >= s.cashoutAtLevel \/ s.level = MAX_LEVEL
  THEN [s EXCEPT !.totalReturned =
                   FloatAdd(s.totalReturned, calcPayout(s.bet, s.level)),
                 !.returned = calcPayout(s.bet, s.level),
                 !.wins = s.wins + 1,
                 !.totalLevels = s.totalLevels + s.level,
                 !.done = TRUE, !.pc = "for", !.r = s.r + 1,
                 !.iterations = s.iterations + 1]
  ELSE IF s.failAt = FailAt(s.level)
  THEN [s EXCEPT !.losses = s.losses + 1,
                 !.totalLevels = s.totalLevels + s.level,
                 !.done = TRUE, !.pc = "for", !.r = s.r + 1,
                 !.iterations = s.iterations + 1]
  ELSE [s EXCEPT !.level = s.level + 1, !.iterations = s.iterations + 1]

\* The live game in the running state of a round whose failure level is f:
\* a new game seeded with a number that makes the sampler return f, after a
\* swipe up from the intro.
LiveSeedOf(f) == LadderSeedNumbers[IF f.never THEN 1 ELSE f.level + 1]

LiveRound(f) ==
  transitionDone(handleSwipeUp(bootDone(NewGame(LiveSeedOf(f))), 0))

\* The player of strategy L in the live game: DISLIKE from level L on, or
\* COLLECT when only that is offered, and LIKE before, with the
\* continuation of the handler.
LivePlay(g, L) ==
  IF g.level >= L \/ g.collectOnly THEN handleDislike(g)
  ELSE LET h == handleLike(g)
       IN  IF h.pending = "lose" THEN loseDelayDone(h) ELSE transitionDone(h)

\* -------------------------------------------------- card-draw simulation
\* runSimulation(rounds, seed, cashoutDepth) of the card game, a record of
\* its locals.  draw is what the last drawCard returned, draws the draws of
\* the round, returned what the round added to totalReturned.
\* Seeds: the draws of 35 are 32 safe cards and a bomb, of 346 twelve safe
\* cards, a viral_boost and 26 safe cards, of 3194 safe, viral_boost, 14
\* safe, viral_boost and safe cards; 1 gives safe, safe, safe, 2 safe,
\* bomb, 25 bomb, 61 safe, viral_boost, 205 viral_boost.
CardSimSeedNumbers == {35, 346, 3194, 1, 2, 25, 61, 205}

\* The values given for cashoutDepth.
CashoutDepths == {0, 1, 2, 3, 30, 31, 32, 40}

cardRunSimulation(rounds, seed, cashoutDepth) ==
  [rounds |-> rounds, cashoutDepth |-> cashoutDepth, rng |-> GameRng(seed),
   totalWagered |-> 0, totalReturned |-> DecZero, totalSwipes |-> 0,
   wins |-> 0, losses |-> 0, viralBoosts |-> 0, r |-> 0,
   roundValue |-> DecZero, safeCount |-> 0, cardIdx |-> 0, done |-> TRUE,
   pc |-> "for", draw |-> "none", draws |-> 0, returned |-> DecZero]

\* The round of the earlier simulation, which starts from SWIPE_COST.
cardSimRoundNoEdge(s) ==
  [s EXCEPT !.totalWagered = s.totalWagered + SWIPE_COST,
            !.roundValue = DecInt(SWIPE_COST),
            !.safeCount = 0, !.cardIdx = 0, !.done = FALSE, !.pc = "while",
            !.draw = "none", !.draws = 0, !.returned = DecZero]

\* the body of the for loop up to the while loop
cardSimRound(s) ==
  [s EXCEPT !.totalWagered = s.totalWagered + SWIPE_COST,
            !.roundValue = DecMul(DecInt(SWIPE_COST), HOUSE_EDGE),
            !.safeCount = 0, !.cardIdx = 0, !.done = FALSE, !.pc = "while",
            !.draw = "none", !.draws = 0, !.returned = DecZero]

\* the card of a pass is drawn: rng advanced, the result kept
cardSimDrawn(s, d) ==
  [s EXCEPT !.rng = d.st, !.draw = d.result, !.draws = s.draws + 1]

\* the bomb branch of a pass
cardSimBomb(s, t) ==
  [t EXCEPT !.losses = s.losses + 1,
            !.totalSwipes = s.totalSwipes + s.cardIdx + 1,
            !.done = TRUE, !.pc = "for", !.r = s.r + 1]

\* the safe branch of a pass, v the capped roundValue
cardSimSafe(s, t, v) ==
  IF s.safeCount + 1 >= s.cashoutDepth \/ s.cardIdx >= 30
  THEN [t EXCEPT !.viralBoosts = IF t.draw = "viral_boost"
                                 THEN s.viralBoosts + 1 ELSE s.viralBoosts,
                 !.roundValue = v,
                 !.safeCount = s.safeCount + 1,
                 !.totalReturned = DecAdd(s.totalReturned, v),
                 !.returned = v, !.wins = s.wins + 1,
                 !.totalSwipes = s.totalSwipes + s.cardIdx + 1,
                 !.done = TRUE, !.pc = "for", !.r = s.r + 1]
  ELSE [t EXCEPT !.viralBoosts = IF t.draw = "viral_boost"
                                 THEN s.viralBoosts + 1 ELSE s.viralBoosts,
                 !.roundValue = v,
                 !.safeCount = s.safeCount + 1,
                 !.cardIdx = s.cardIdx + 1]

cardSimAfterDraw(s, t) ==
  IF t.draw = "bomb" THEN cardSimBomb(s, t)
  ELSE cardSimSafe(s, t,
         DecMin(DecMul(s.roundValue,
                       IF t.draw = "viral_boost" THEN VIRAL_BOOST_MULT
                       ELSE NORMAL_SAFE_MULT),
                DecInt(SWIPE_COST * MAX_MULT)))

\* one pass through the while loop; the pass that sets done also leaves the
\* loop and counts the round (r++)
cardSimPass(s) ==
  cardSimAfterDraw(s, cardSimDrawn(s, drawCard(CardModel, s.rng)))

\* The Economy driven by a draw of the simulation: onBomb for a bomb,
\* onSafeCard for another card, with VIRAL_BOOST_MULT as the override of a
\* viral_boost.
EconomyDraw(e, draw) ==
  IF draw = "bomb" THEN cardOnBomb(e)
  ELSE cardOnSafeCard(e, IF draw = "viral_boost"
                         THEN Override(VIRAL_BOOST_MULT) ELSE NoOverride)

\* --------------------------------------------------------- StateMachine
GameStates == {"IDLE", "RUNNING", "WIN", "LOSE"}
MaxMachineCalls == 4

\* The bet selector's onChange: economy.bet = v.
SetBet(v) ==
  /\ bet' = v
  /\ betTouched' = (betTouched \/ (open /\ v # bet))
  /\ lastOp' = "setBet"
  /\ lastRet' = DecZero
  /\ nOps' = nOps + 1
  /\ UNCHANGED <<balance, roundValue, cardCount, hist, bal0, bet0, open,
                 ended, cashCount, firstGross, paid>>

startRound ==
  /\ balance' = DecSub(balance, DecInt(bet))
  /\ roundValue' = SeedValue(bet)
  /\ cardCount' = 0
  /\ lastOp' = "startRound"
  /\ lastRet' = DecZero
  /\ nOps' = nOps + 1
  /\ hist' = <<>>
  /\ bal0' = balance
  /\ bet0' = bet
  /\ open' = TRUE
  /\ ended' = "none"
  /\ betTouched' = FALSE
  /\ cashCount' = 0
  /\ firstGross' = DecZero
  /\ paid' = DecZero
  /\ UNCHANGED bet

onSafeCard(ov) ==
  /\ roundValue' = SafeValue(roundValue, SafeMult(ov), bet)
  /\ cardCount' = cardCount + 1
  /\ lastOp' = "onSafeCard"
  /\ lastRet' = DecZero
  /\ nOps' = nOps + 1
  /\ hist' = Append(hist, SafeMult(ov))
  /\ UNCHANGED <<balance, bet, bal0, bet0, open, ended, betTouched,
                 cashCount, firstGross, paid>>

cashout ==
  /\ balance' = CashoutBalance(balance, roundValue)
  /\ roundValue' = CashoutValue(roundValue)
  /\ cardCount' = 0
  /\ lastOp' = "cashout"
  /\ lastRet' = roundValue
  /\ nOps' = nOps + 1
  /\ open' = FALSE
  /\ ended' = IF open THEN "cashout" ELSE ended
  /\ cashCount' = cashCount + 1
  /\ firstGross' = IF cashCount = 0 THEN roundValue ELSE firstGross
  /\ paid' = DecAdd(paid, roundValue)
  /\ UNCHANGED <<bet, hist, bal0, bet0, betTouched>>

onBomb ==
  /\ roundValue' = BombValue(roundValue)
  /\ cardCount' = 0
  /\ lastOp' = "onBomb"
  /\ lastRet' = DecZero
  /\ nOps' = nOps + 1
  /\ open' = FALSE
  /\ ended' = IF open THEN "bomb" ELSE ended
  /\ UNCHANGED <<balance, bet, hist, bal0, bet0, betTouched, cashCount,
                 firstGross, paid>>

\* Any caller of the Economy API, MaxOps calls long.
EcoSetBet ==
  /\ nOps < MaxOps /\ \E v \in Bets : SetBet(v)
  /\ UNCHANGED notEcoVars
EcoStartRound ==
  /\ nOps < MaxOps /\ startRound
  /\ UNCHANGED notEcoVars
EcoOnSafeCard ==
  /\ nOps < MaxOps /\ \E ov \in Overrides \cup {NoOverride} : onSafeCard(ov)
  /\ UNCHANGED notEcoVars
EcoCashout ==
  /\ nOps < MaxOps /\ cashout
  /\ UNCHANGED notEcoVars
EcoOnBomb ==
  /\ nOps < MaxOps /\ onBomb
  /\ UNCHANGED notEcoVars

EcoNext ==
  \/ EcoSetBet
  \/ EcoStartRound
  \/ EcoOnSafeCard
  \/ EcoCashout
  \/ EcoOnBomb

\* One round played with the default multiplier only: the bet is chosen, the
\* round started, up to MaxDefaultCards cards drawn, then cashed out.
DrSetBet ==
  /\ nOps = 0 /\ \E v \in Bets : SetBet(v)
  /\ UNCHANGED notEcoVars
DrStartRound ==
  /\ ~open /\ ended = "none" /\ startRound
  /\ UNCHANGED notEcoVars
DrOnSafeCard ==
  /\ open /\ Len(hist) < MaxDefaultCards /\ onSafeCard(NoOverride)
  /\ UNCHANGED notEcoVars
DrCashout ==
  /\ open /\ cashout
  /\ UNCHANGED notEcoVars

DrNext ==
  \/ DrSetBet
  \/ DrStartRound
  \/ DrOnSafeCard
  \/ DrCashout

\* ------------------------------------------------- random source runs
RngInitFor(impl, seed) ==
  /\ rngImpl = impl
  /\ rngSeed = seed
  /\ rngInit = RngConstruct(impl, seed)
  /\ rngA = RngConstruct(impl, seed)
  /\ rngB = RngConstruct(impl, seed)
  /\ script = <<>>
  /\ outA = <<>>
  /\ outB = <<>>
  /\ clock = 0

\* The first instance makes a new call.
RngCallA ==
  /\ Len(script) < MaxDraws
  /\ \E call \in RngCalls(rngImpl) :
       LET d == RngDraw(rngImpl, rngA)
       IN  /\ rngA' = d.st
           /\ outA' = Append(outA, RngResult(call, d.t))
           /\ script' = Append(script, call)
  /\ UNCHANGED <<rngImpl, rngSeed, rngInit, rngB, outB, clock>>
  /\ UNCHANGED notRngVars

\* The second instance makes the call the first made at the same position.
RngCallB ==
  /\ Len(outB) < Len(script)
  /\ LET call == script[Len(outB) + 1]
         d == RngDraw(rngImpl, rngB)
     IN  /\ rngB' = d.st
         /\ outB' = Append(outB, RngResult(call, d.t))
  /\ UNCHANGED <<rngImpl, rngSeed, rngInit, rngA, outA, script, clock>>
  /\ UNCHANGED notRngVars

\* Time passes between calls.
RngTick ==
  /\ clock < MaxClock
  /\ clock' = clock + 1
  /\ UNCHANGED <<rngImpl, rngSeed, rngInit, rngA, rngB, script, outA, outB>>
  /\ UNCHANGED notRngVars

RngNext ==
  \/ RngCallA
  \/ RngCallB
  \/ RngTick

\* ---------------------------------------------------------- slot spins
SpinPickOutcome ==
  /\ spinPhase = "idle"
  /\ \E oc \in PossibleOutcomes(slotConfig) : outcome' = oc
  /\ spinPhase' = "picked"
  /\ UNCHANGED <<slotConfig, fill, grid, thrown>>
  /\ UNCHANGED notSlotVars

SpinBuildGrid ==
  /\ spinPhase = "picked"
  /\ \E f \in GridFills(slotConfig, outcome.paylineRow) :
       LET b == buildFinalGrid(slotConfig, f, outcome)
       IN  /\ fill' = f
           /\ grid' = b.grid
           /\ thrown' = b.thrown
  /\ spinPhase' = "built"
  /\ UNCHANGED <<slotConfig, outcome>>
  /\ UNCHANGED notSlotVars

\* The next spin starts from a new outcome and a new grid.
SpinDone ==
  /\ spinPhase = "built"
  /\ ~thrown
  /\ spinPhase' = "idle"
  /\ outcome' = NoOutcome
  /\ fill' = <<>>
  /\ grid' = <<>>
  /\ UNCHANGED <<slotConfig, thrown>>
  /\ UNCHANGED notSlotVars

SpinNext ==
  \/ SpinPickOutcome
  \/ SpinBuildGrid
  \/ SpinDone

\* ---------------------------------------------------------- card draws
OcDrawCard ==
  /\ ocCalls < MaxCards
  /\ LET r == drawCard(CardModels[ocVersion], ocRng)
     IN  /\ ocResult' = r.result
         /\ ocRng' = r.st
  /\ ocPrev' = ocRng
  /\ ocCalls' = ocCalls + 1
  /\ UNCHANGED ocVersion
  /\ UNCHANGED notOcVars

OcNext == OcDrawCard

\* ------------------------------------------------------ failure sampler
SmpSample ==
  /\ smpCalls < MaxSamples
  /\ LET r == sampleFailAtLike(smpRng)
     IN  /\ smpFail' = r.fail
         /\ smpRng' = r.st
  /\ smpPrev' = smpRng
  /\ smpCalls' = smpCalls + 1
  /\ UNCHANGED notSmpVars

SmpNext == SmpSample

\* ---------------------------------------------------------- ladder game
\* A player action or a continuation without Math.random; the twin
\* receives it when its page offers it too.
LdStep(event, offered(_), handler(_)) ==
  /\ offered(game)
  /\ game' = handler(game)
  /\ twin' = IF offered(twin) THEN handler(twin) ELSE twin
  /\ ldEvent' = event

\* What Math.random can return to a handler that finds the seed field as
\* text (0 stands for "not called").
RandomFor(text) == IF text = 0 THEN RoundSeedNumbers ELSE {0}

LdBootOffered(g) == g.pending = "boot"
LdBoot ==
  /\ LdStep("boot", LdBootOffered, bootDone)
  /\ UNCHANGED <<ldRounds, ldDiverged>>
  /\ UNCHANGED notLdVars

LdBetOffered(g) == g.betSelector /\ g.pending = "none"
LdBetChange ==
  /\ LdBetOffered(game)
  /\ \E v \in LadderBets :
       /\ game' = betChange(game, v)
       /\ twin' = IF LdBetOffered(twin) THEN betChange(twin, v) ELSE twin
  /\ ldEvent' = "bet"
  /\ UNCHANGED <<ldRounds, ldDiverged>>
  /\ UNCHANGED notLdVars

LdSwipeOffered(g) == ~g.swipeLocked
LdSwipeUp ==
  /\ ldRounds < MaxRounds
  /\ LdSwipeOffered(game)
  /\ \E r \in RandomFor(game.seedText) :
       /\ game' = handleSwipeUp(game, r)
       /\ twin' = IF LdSwipeOffered(twin) THEN handleSwipeUp(twin, TwinSeed(r))
                  ELSE twin
  /\ ldEvent' = "swipe"
  /\ ldRounds' = ldRounds + 1
  /\ UNCHANGED ldDiverged
  /\ UNCHANGED notLdVars

LdTransitionOffered(g) == g.pending \in {"begin", "like"}
LdTransitionDone ==
  /\ LdStep("shown", LdTransitionOffered, transitionDone)
  /\ UNCHANGED <<ldRounds, ldDiverged>>
  /\ UNCHANGED notLdVars

LdLikeOffered(g) == g.actionsShown /\ ~g.collectOnly
LdLike ==
  /\ LdStep("like", LdLikeOffered, handleLike)
  /\ ldDiverged' =
       (ldDiverged \/ ~LdLikeOffered(twin)
          \/ (game.failAtLike = FailAt(game.level))
               # (twin.failAtLike = FailAt(twin.level)))
  /\ UNCHANGED ldRounds
  /\ UNCHANGED notLdVars

LdLoseOffered(g) == g.pending = "lose"
LdLoseDelayDone ==
  /\ LdStep("busted", LdLoseOffered, loseDelayDone)
  /\ UNCHANGED <<ldRounds, ldDiverged>>
  /\ UNCHANGED notLdVars

LdDislikeOffered(g) == g.actionsShown /\ ~g.collectOnly
LdDislike ==
  /\ LdStep("dislike", LdDislikeOffered, handleDislike)
  /\ UNCHANGED <<ldRounds, ldDiverged>>
  /\ UNCHANGED notLdVars

LdCollectOffered(g) == g.actionsShown /\ g.collectOnly
LdCollect ==
  /\ LdStep("collect", LdCollectOffered, handleDislike)
  /\ UNCHANGED <<ldRounds, ldDiverged>>
  /\ UNCHANGED notLdVars

LdTimerOffered(g) == g.timer
LdWinPopupTimer ==
  /\ LdStep("paid", LdTimerOffered, winPopupTimer)
  /\ UNCHANGED <<ldRounds, ldDiverged>>
  /\ UNCHANGED notLdVars

\* handlePopupButton empties the seed field before resetRng reads it.
LdPopupOffered(g) == g.popupShown
LdPopupButton ==
  /\ LdPopupOffered(game)
  /\ \E r \in RandomFor(0) :
       /\ game' = handlePopupButton(game, r)
       /\ twin' = IF LdPopupOffered(twin) THEN handlePopupButton(twin, TwinSeed(r))
                  ELSE twin
  /\ ldEvent' = "popup"
  /\ UNCHANGED <<ldRounds, ldDiverged>>
  /\ UNCHANGED notLdVars

\* Click events dispatched on the LIKE and on the DISLIKE or COLLECT button
\* while the action area is hidden: the listeners run all the same.
LdHiddenOffered(g) == ~g.actionsShown
LdLikeHidden ==
  /\ LdStep("like", LdHiddenOffered, handleLike)
  /\ UNCHANGED <<ldRounds, ldDiverged>>
  /\ UNCHANGED notLdVars

LdDislikeHidden ==
  /\ LdStep("dislike", LdHiddenOffered, handleDislike)
  /\ UNCHANGED <<ldRounds, ldDiverged>>
  /\ UNCHANGED notLdVars

\* A click event dispatched on the LIKE button while the action area shows
\* COLLECT alone: the listener runs all the same.
LdLikeCollectOnly ==
  /\ LdStep("like", LdCollectOffered, handleLike)
  /\ UNCHANGED <<ldRounds, ldDiverged>>
  /\ UNCHANGED notLdVars

\* A seed typed into the seed field, at any time.
LdSeedChange ==
  /\ \E typed \in LadderTypedSeeds :
       /\ game' = ladderSeedChanged(game, typed)
       /\ twin' = ladderSeedChanged(twin, typed)
  /\ ldEvent' = "seed"
  /\ UNCHANGED <<ldRounds, ldDiverged>>
  /\ UNCHANGED notLdVars

LdNext ==
  \/ LdBoot
  \/ LdBetChange
  \/ LdSwipeUp
  \/ LdTransitionDone
  \/ LdLike
  \/ LdLoseDelayDone
  \/ LdDislike
  \/ LdCollect
  \/ LdWinPopupTimer
  \/ LdPopupButton

\* ------------------------------------------------- configuration tables
\* new ProbabilityController(config) on the declared profile
CfgConstructController ==
  /\ cfgGame = "slot"
  /\ cfgPhase = "declared"
  /\ cfgBuilt' = ControllerFrom(ProfileOf(cfgTables), slotConfig)
  /\ cfgPhase' = IF cfgBuilt'.thrown THEN "rejected" ELSE "constructed"
  /\ UNCHANGED <<cfgGame, cfgTables, cfgUses, cfgLast>>
  /\ UNCHANGED notCfgVars

\* The module initialisation that computes SURVIVAL_PROBS from the table
CfgConstructProbs ==
  /\ cfgGame = "ladder"
  /\ cfgPhase = "declared"
  /\ cfgBuilt' = SurvivalProbsFrom(cfgTables)
  /\ cfgPhase' = "constructed"
  /\ UNCHANGED <<cfgGame, cfgTables, cfgUses, cfgLast>>
  /\ UNCHANGED notCfgVars

\* A winning spin picks its payout tier from the constructed controller.
CfgSpin ==
  /\ cfgGame = "slot"
  /\ cfgPhase = "constructed"
  /\ cfgUses < MaxUses
  /\ \E u \in Draws : cfgLast' = WinOf(cfgBuilt, u)
  /\ cfgUses' = cfgUses + 1
  /\ UNCHANGED <<cfgGame, cfgTables, cfgPhase, cfgBuilt>>
  /\ UNCHANGED notCfgVars

\* A round samples its failure level from the constructed probabilities.
CfgRound ==
  /\ cfgGame = "ladder"
  /\ cfgPhase = "constructed"
  /\ cfgUses < MaxUses
  /\ \E r \in RoundSeedNumbers : cfgLast' = SampleJs(LadderRng(r), 1, cfgBuilt)
  /\ cfgUses' = cfgUses + 1
  /\ UNCHANGED <<cfgGame, cfgTables, cfgPhase, cfgBuilt>>
  /\ UNCHANGED notCfgVars

CfgNext ==
  \/ CfgConstructController
  \/ CfgConstructProbs
  \/ CfgSpin
  \/ CfgRound

\* ------------------------------------------------------- outcome picks
\* The draws of one pick: every pair of primary and win-kind rolls with the
\* lowest tier and symbol rolls, and every pair of tier and symbol rolls of
\* a win.
PickRolls ==
  {<<u1, u2, 0, 0>> : u1 \in Draws, u2 \in Draws}
    \cup {<<DrawDen - 1, 0, u3, u4>> : u3 \in Draws, u4 \in Draws}

\* OutcomeController.pickOutcome(config, rng, probCtrl) on the draws d
PkPickOutcome ==
  /\ spinPhase = "idle"
  /\ \E d \in PickRolls :
       /\ outcome' = pickOutcome(slotConfig, ProbabilityController(slotConfig),
                                 d[1], d[2], d[3], d[4])
       /\ pkDraws' = d
  /\ spinPhase' = "picked"
  /\ UNCHANGED <<slotConfig, fill, grid, thrown>>
  /\ UNCHANGED <<ecoVars, rngVars, ocVars, smpVars, ldVars, cfgVars, cgVars, simVars,
                 fsmVars>>

PkNext == PkPickOutcome

\* ------------------------------------------------------------- card game
CgInitFor(file, r) ==
  /\ cardGame = NewCardGame(file, r)
  /\ cgRounds = 0
  /\ cgEvent = "new"

\* A swipe gesture (pointer or wheel), at any time.
CgSwipe ==
  /\ cardGame.state = "intro" => cgRounds < MaxGameRounds
  /\ cardGame.state = "running" => cardGame.cardCount < MaxGameCards
  /\ cardGame' = swipeGesture(cardGame)
  /\ cgEvent' = "swipe"
  /\ cgRounds' = IF cardGame'.handler = "beginRound" /\ cardGame.handler = "none"
                 THEN cgRounds + 1 ELSE cgRounds
  /\ UNCHANGED notCgVars

CgTransitionResolved ==
  /\ cardGame.pending = "transition"
  /\ cardGame' = transitionResolved(cardGame)
  /\ cgEvent' = "shown"
  /\ UNCHANGED cgRounds
  /\ UNCHANGED notCgVars

CgDelayResolved ==
  /\ cardGame.pending = "delay"
  /\ cardGame' = delayResolved(cardGame)
  /\ cgEvent' = "busted"
  /\ UNCHANGED cgRounds
  /\ UNCHANGED notCgVars

\* A click on the cash-out button, which the bottom bar shows.
CgCashout ==
  /\ cardGame.cashoutShown
  /\ cardGame' = handleCashout(cardGame)
  /\ cgEvent' = "cashout"
  /\ UNCHANGED cgRounds
  /\ UNCHANGED notCgVars

\* A click event dispatched on the cash-out button while the bottom bar
\* does not show it: the listener runs all the same.
CgCashoutHidden ==
  /\ ~cardGame.cashoutShown
  /\ cardGame' = handleCashout(cardGame)
  /\ cgEvent' = "cashout"
  /\ UNCHANGED cgRounds
  /\ UNCHANGED notCgVars

CgWinPopupTimer ==
  /\ cardGame.timer
  /\ cardGame' = cardWinPopupTimer(cardGame)
  /\ cgEvent' = "paid"
  /\ UNCHANGED cgRounds
  /\ UNCHANGED notCgVars

\* A click on the popup's button; handlePopupButton empties the seed field
\* before resetRng reads it.
CgPopupButton ==
  /\ cardGame.popupShown
  /\ \E r \in GameSeedNumbers : cardGame' = cardHandlePopupButton(cardGame, r)
  /\ cgEvent' = "popup"
  /\ UNCHANGED cgRounds
  /\ UNCHANGED notCgVars

\* A seed typed into the seed field.
CgSeedChange ==
  /\ \E typed \in TypedSeeds : cardGame' = seedChanged(cardGame, typed)
  /\ cgEvent' = "seed"
  /\ UNCHANGED cgRounds
  /\ UNCHANGED notCgVars

CgNext ==
  \/ CgSwipe
  \/ CgTransitionResolved
  \/ CgDelayResolved
  \/ CgCashout
  \/ CgCashoutHidden
  \/ CgWinPopupTimer
  \/ CgPopupButton
  \/ CgSeedChange

\* ------------------------------------------------ simulations, StateMachine
LsInitFor(seed, L) ==
  ladderSim = [sim |-> ladderRunSimulation(MaxSimRounds, seed, L),
               live |-> BlankGame]

\* The for loop enters a round; the live game begins a round of the same
\* failure level.
LsRound ==
  /\ ladderSim.sim.pc = "for"
  /\ ladderSim.sim.r < ladderSim.sim.rounds
  /\ LET s == ladderSimRound(ladderSim.sim)
     IN  ladderSim' = [sim |-> s, live |-> LiveRound(s.failAt)]
  /\ UNCHANGED cardSim
  /\ UNCHANGED notSimVars

\* A pass through the while loop; the player makes the move of the
\* strategy in the live game.
LsPass ==
  /\ ladderSim.sim.pc = "while"
  /\ ladderSim' =
       [sim |-> ladderSimPass(ladderSim.sim),
        live |-> LivePlay(ladderSim.live, ladderSim.sim.cashoutAtLevel)]
  /\ UNCHANGED cardSim
  /\ UNCHANGED notSimVars

\* The for loop ends and runSimulation returns.
LsReturn ==
  /\ ladderSim.sim.pc = "for"
  /\ ladderSim.sim.r >= ladderSim.sim.rounds
  /\ ladderSim' = [ladderSim EXCEPT !.sim.pc = "return"]
  /\ UNCHANGED cardSim
  /\ UNCHANGED notSimVars

LsNext == LsRound \/ LsPass \/ LsReturn

CsInitFor(seed, depth) ==
  cardSim = [sim |-> cardRunSimulation(MaxSimRounds, seed, depth),
             eco |-> BlankCardGame("later"), seen |-> DecZero]

\* The for loop enters a round; the Economy starts one.  seen is the
\* Economy's roundValue after startRound, onSafeCard or onBomb.
CsRound ==
  /\ cardSim.sim.pc = "for"
  /\ cardSim.sim.r < cardSim.sim.rounds
  /\ LET e == cardStartRound(cardSim.eco)
     IN  cardSim' = [sim |-> cardSimRound(cardSim.sim), eco |-> e,
                     seen |-> e.roundValue]
  /\ UNCHANGED ladderSim
  /\ UNCHANGED notSimVars

\* A pass through the while loop; the Economy is driven by the draw, and
\* cashes out when the simulation counts a win.
CsPassed(t, e) ==
  cardSim' = [sim |-> t,
              eco |-> IF t.done /\ t.draw # "bomb" THEN cardCashout(e)
                      ELSE e,
              seen |-> e.roundValue]

CsDrawn(t) == CsPassed(t, EconomyDraw(cardSim.eco, t.draw))

CsPass ==
  /\ cardSim.sim.pc = "while"
  /\ CsDrawn(cardSimPass(cardSim.sim))
  /\ UNCHANGED ladderSim
  /\ UNCHANGED notSimVars

CsReturn ==
  /\ cardSim.sim.pc = "for"
  /\ cardSim.sim.r >= cardSim.sim.rounds
  /\ cardSim' = [cardSim EXCEPT !.sim.pc = "return"]
  /\ UNCHANGED ladderSim
  /\ UNCHANGED notSimVars

CsNext == CsRound \/ CsPass \/ CsReturn

\* new StateMachine()
FsmInit ==
  /\ fsmState = "IDLE"
  /\ fsmListeners = {}
  /\ fsmFired = "none"
  /\ fsmCalls = 0

isLocked == fsmState = "RUNNING"

\* on(state, cb), by any caller
FsmOn ==
  /\ fsmCalls < MaxMachineCalls
  /\ \E state \in GameStates : fsmListeners' = fsmListeners \cup {state}
  /\ fsmFired' = "none"
  /\ fsmCalls' = fsmCalls + 1
  /\ UNCHANGED fsmState
  /\ UNCHANGED notFsmVars

\* transition(next), by any caller; fsmFired is the state whose listener
\* the call fired.
FsmTransition ==
  /\ fsmCalls < MaxMachineCalls
  /\ \E next \in GameStates :
       /\ fsmState' = next
       /\ fsmFired' = IF next \in fsmListeners THEN next ELSE "none"
  /\ fsmCalls' = fsmCalls + 1
  /\ UNCHANGED fsmListeners
  /\ UNCHANGED notFsmVars

FsmNext == FsmOn \/ FsmTransition

\* ------------------------------------------------------- losing streaks
\* Rounds played until the balance runs out: the ladder game with a seed
\* that fails at level 1 (the second game, with a seed that never fails,
\* stays in its first round), the card game with a seed whose first card
\* is a bomb.  The page runs one of the two games, and the player never
\* cashes out.
MaxLadderStreak == 6
MaxCardStreak == 101
LosingSeeds == {8}
BombSeeds == {25}

StkSwipeUp ==
  /\ ldRounds < MaxLadderStreak
  /\ LdSwipeOffered(game)
  /\ \E r \in (IF game.seedText = 0 THEN LosingSeeds ELSE {0}) :
       /\ game' = handleSwipeUp(game, r)
       /\ twin' = IF LdSwipeOffered(twin) THEN handleSwipeUp(twin, TwinSeed(r))
                  ELSE twin
  /\ ldEvent' = "swipe"
  /\ ldRounds' = ldRounds + 1
  /\ UNCHANGED ldDiverged
  /\ UNCHANGED notLdVars

StkPopupButton ==
  /\ LdPopupOffered(game)
  /\ \E r \in LosingSeeds :
       /\ game' = handlePopupButton(game, r)
       /\ twin' = IF LdPopupOffered(twin) THEN handlePopupButton(twin, TwinSeed(r))
                  ELSE twin
  /\ ldEvent' = "popup"
  /\ UNCHANGED <<ldRounds, ldDiverged>>
  /\ UNCHANGED notLdVars

StkLadderNext ==
  /\ cgEvent = "new"
  /\ \/ LdBoot
     \/ LdBetChange
     \/ StkSwipeUp
     \/ LdTransitionDone
     \/ LdLike
     \/ LdLoseDelayDone
     \/ StkPopupButton

StkCardSwipe ==
  /\ cardGame.state = "intro" => cgRounds < MaxCardStreak
  /\ cardGame' = swipeGesture(cardGame)
  /\ cgEvent' = "swipe"
  /\ cgRounds' = IF cardGame'.handler = "beginRound" /\ cardGame.handler = "none"
                 THEN cgRounds + 1 ELSE cgRounds
  /\ UNCHANGED notCgVars

StkCardPopupButton ==
  /\ cardGame.popupShown
  /\ \E r \in BombSeeds : cardGame' = cardHandlePopupButton(cardGame, r)
  /\ cgEvent' = "popup"
  /\ UNCHANGED cgRounds
  /\ UNCHANGED notCgVars

StkCardNext ==
  /\ ldEvent = "new"
  /\ \/ StkCardSwipe
     \/ CgTransitionResolved
     \/ CgDelayResolved
     \/ StkCardPopupButton

StkNext == StkLadderNext \/ StkCardNext

\* ------------------------------------------------------ specifications
\* The parts a specification does not exercise stay as constructed.
EcoIdle == EcoInit
SlotIdle ==
  SlotInitFor([rows |-> 3, cols |-> 3, symbolsCount |-> SYMBOLS_COUNT,
               targetRtp |-> TARGET_RTP, volatility |-> "MED"])
RngIdle == RngInitFor("card", SeedNum(FALSE, 0, <<0, 1>>, FALSE))
OcIdle == OcInitFor("current", SeedNum(FALSE, 0, <<0, 1>>, FALSE))
SmpIdle == SmpInitFor(SeedNum(FALSE, 0, <<0, 1>>, FALSE))
LdIdle == LdInitFor(1, 1)
CfgIdle == CfgInitFor("ladder", CashoutTable(MAX_LEVEL))
PkIdle == pkDraws = <<>>
CgIdle == CgInitFor("later", 1)
LadderSimIdle ==
  ladderSim = [sim |-> ladderRunSimulation(0, 1, 2), live |-> BlankGame]
CardSimIdle ==
  cardSim = [sim |-> cardRunSimulation(0, 1, 1),
             eco |-> BlankCardGame("later"), seen |-> DecZero]
SimIdle == LadderSimIdle /\ CardSimIdle
FsmIdle == FsmInit

InitEconomy ==
  EcoInit /\ RngIdle /\ SlotIdle /\ OcIdle /\ SmpIdle /\ LdIdle /\ CfgIdle
    /\ PkIdle /\ CgIdle /\ SimIdle /\ FsmIdle

InitRng ==
  /\ EcoIdle
  /\ PkIdle
  /\ CgIdle
  /\ SimIdle
  /\ FsmIdle
  /\ CfgIdle
  /\ SlotIdle
  /\ OcIdle
  /\ SmpIdle
  /\ LdIdle
  /\ \E impl \in {"card", "slot"} : \E seed \in Seeds : RngInitFor(impl, seed)

SpecEconomy == InitEconomy /\ [][EcoNext]_vars

SpecDefaultRound == InitEconomy /\ [][DrNext]_vars

SpecRng == InitRng /\ [][RngNext]_vars

InitSlot ==
  /\ EcoIdle
  /\ PkIdle
  /\ CgIdle
  /\ SimIdle
  /\ FsmIdle
  /\ CfgIdle
  /\ RngIdle
  /\ OcIdle
  /\ SmpIdle
  /\ LdIdle
  /\ \E config \in SlotConfigs : SlotInitFor(config)

SpecSlot == InitSlot /\ [][SpinNext]_vars

InitCards ==
  /\ EcoIdle
  /\ PkIdle
  /\ CgIdle
  /\ SimIdle
  /\ FsmIdle
  /\ CfgIdle
  /\ RngIdle
  /\ SlotIdle
  /\ SmpIdle
  /\ LdIdle
  /\ \E version \in {"current", "earlier"} : \E seed \in CardSeeds :
       OcInitFor(version, seed)

SpecCards == InitCards /\ [][OcNext]_vars

InitSampler ==
  /\ EcoIdle
  /\ PkIdle
  /\ CgIdle
  /\ SimIdle
  /\ FsmIdle
  /\ CfgIdle
  /\ RngIdle
  /\ SlotIdle
  /\ OcIdle
  /\ LdIdle
  /\ \E seed \in LadderSeeds : SmpInitFor(seed)

SpecSampler == InitSampler /\ [][SmpNext]_vars

InitLadder ==
  /\ EcoIdle
  /\ PkIdle
  /\ CgIdle
  /\ SimIdle
  /\ FsmIdle
  /\ CfgIdle
  /\ RngIdle
  /\ SlotIdle
  /\ OcIdle
  /\ SmpIdle
  /\ \E r \in RoundSeedNumbers : LdInitFor(r, TwinSeed(r))

SpecLadder == InitLadder /\ [][LdNext]_vars

\* The ladder game with the click events the page does not offer and with
\* edits of the seed field.
LdClicksNext == LdNext \/ LdLikeHidden \/ LdDislikeHidden \/ LdSeedChange

SpecLadderClicks == InitLadder /\ [][LdClicksNext]_vars

\* The ladder game with a LIKE click at the top level, followed up to the
\* first level above MAX_LEVEL.
LdTopNext == game.level <= MAX_LEVEL /\ (LdNext \/ LdLikeCollectOnly)

SpecLadderTop == InitLadder /\ [][LdTopNext]_vars

InitConfig ==
  /\ EcoIdle
  /\ PkIdle
  /\ CgIdle
  /\ SimIdle
  /\ FsmIdle
  /\ RngIdle
  /\ OcIdle
  /\ SmpIdle
  /\ LdIdle
  /\ \E config \in SlotConfigs : SlotInitFor(config)
  /\ \/ \E t \in ProfileTables : CfgInitFor("slot", t)
     \/ \E n \in TableLevels : CfgInitFor("ladder", CashoutTable(n))

SpecConfig == InitConfig /\ [][CfgNext]_vars

SpecPick == InitSlot /\ [][PkNext]_vars

InitGame ==
  /\ SimIdle
  /\ FsmIdle
  /\ EcoIdle
  /\ RngIdle
  /\ SlotIdle
  /\ OcIdle
  /\ SmpIdle
  /\ LdIdle
  /\ CfgIdle
  /\ PkIdle
  /\ \E file \in CardFiles, r \in GameSeedNumbers : CgInitFor(file, r)

SpecGame == InitGame /\ [][CgNext]_vars

InitLadderSim ==
  /\ EcoIdle
  /\ RngIdle
  /\ SlotIdle
  /\ OcIdle
  /\ SmpIdle
  /\ LdIdle
  /\ CfgIdle
  /\ PkIdle
  /\ CgIdle
  /\ CardSimIdle
  /\ FsmIdle
  /\ \E seed \in SimSeedNumbers, L \in Strategies : LsInitFor(seed, L)

SpecLadderSim == InitLadderSim /\ [][LsNext]_vars

InitCardSim ==
  /\ EcoIdle
  /\ RngIdle
  /\ SlotIdle
  /\ OcIdle
  /\ SmpIdle
  /\ LdIdle
  /\ CfgIdle
  /\ PkIdle
  /\ CgIdle
  /\ LadderSimIdle
  /\ FsmIdle
  /\ \E seed \in CardSimSeedNumbers, depth \in CashoutDepths :
       CsInitFor(seed, depth)

SpecCardSim == InitCardSim /\ [][CsNext]_vars

InitMachine ==
  /\ EcoIdle
  /\ RngIdle
  /\ SlotIdle
  /\ OcIdle
  /\ SmpIdle
  /\ LdIdle
  /\ CfgIdle
  /\ PkIdle
  /\ CgIdle
  /\ SimIdle
  /\ FsmInit

SpecMachine == InitMachine /\ [][FsmNext]_vars

InitStreak ==
  /\ EcoIdle
  /\ RngIdle
  /\ SlotIdle
  /\ OcIdle
  /\ SmpIdle
  /\ CfgIdle
  /\ PkIdle
  /\ SimIdle
  /\ FsmIdle
  /\ \E r \in LosingSeeds : LdInitFor(r, TwinSeed(r))
  /\ \E r \in BombSeeds : CgInitFor("later", r)

SpecStreak == InitStreak /\ [][StkNext]_vars

\* ---------------------------------------------------------------- claims
\* One more call of the Economy API was made, and it was op.
Called(op) == nOps' = nOps + 1 /\ lastOp' = op

Cap(b) == DecInt(b * MAX_MULT)

\* bet x HOUSE_EDGE x the product of the first i multipliers of h.
Unclamped(b, h, i) == DecMul(DecMul(DecInt(b), HOUSE_EDGE), DecProd(SubSeq(h, 1, i)))

\* No card of the round so far reached the cap.
BelowCap(b, h) == \A i \in 0..Len(h) : DecLe(Unclamped(b, h, i), Cap(b))

AllAtLeast(h, d) == \A i \in 1..Len(h) : DecLe(d, h[i])

\* C2: startRound subtracts exactly the bet from balance, sets roundValue to
\* bet x HOUSE_EDGE and cardCount to 0, and the house edge enters the round
\* value at that point only: while the round is open and the cap has not been
\* reached, roundValue is bet x HOUSE_EDGE x the multipliers of the cards, with
\* HOUSE_EDGE appearing exactly once, and that is the amount cashout returns.
C2_StartRoundSeedsOnce ==
  /\ lastOp = "startRound" =>
       /\ balance = DecSub(bal0, DecInt(bet))
       /\ roundValue = DecMul(DecInt(bet), HOUSE_EDGE)
       /\ cardCount = 0
  /\ (open /\ ~betTouched /\ BelowCap(bet0, hist)) =>
       roundValue = Unclamped(bet0, hist, Len(hist))
  /\ (lastOp = "cashout" /\ cashCount = 1 /\ ended = "cashout"
        /\ ~betTouched /\ BelowCap(bet0, hist)) =>
       lastRet = Unclamped(bet0, hist, Len(hist))

C2_Witness ==
  /\ open /\ ~betTouched /\ lastOp = "onSafeCard"
  /\ Len(hist) >= 2 /\ BelowCap(bet0, hist)
  /\ DecSign(roundValue) > 0

C4_Claimed ==
  ~betTouched => (DecLe(DecZero, roundValue) /\ DecLe(roundValue, Cap(bet)))

\* C4 amended: the same for sequences whose multiplierOverride arguments are
\* all >= 0.
C4_RoundValueInRange ==
  (~betTouched /\ AllAtLeast(hist, DecZero)) =>
    (DecLe(DecZero, roundValue) /\ DecLe(roundValue, Cap(bet)))

C4_Witness ==
  /\ open /\ ~betTouched /\ AllAtLeast(hist, DecZero)
  /\ roundValue = Cap(bet)
  /\ ~BelowCap(bet0, hist)

\* C5: cashout adds exactly the current roundValue to balance, returns that
\* amount, leaves roundValue = 0 and cardCount = 0, and does not change bet.
C5_Cashout ==
  [][Called("cashout") =>
       /\ balance' = DecAdd(balance, roundValue)
       /\ lastRet' = roundValue
       /\ roundValue' = DecZero
       /\ cardCount' = 0
       /\ bet' = bet]_vars

C5_Witness == lastOp = "cashout" /\ DecSign(lastRet) > 0 /\ Len(hist) >= 1

\* C6: cashout on an empty ledger returns 0 and leaves balance unchanged, so
\* the cashout calls of one round credit in total the roundValue at the first.
C6_NoDoublePayout ==
  [][/\ (Called("cashout") /\ roundValue = DecZero) =>
          (lastRet' = DecZero /\ balance' = balance)
     /\ cashCount' >= 1 => paid' = firstGross']_vars

C6_Witness ==
  /\ lastOp = "cashout" /\ cashCount >= 2 /\ ended = "cashout"
  /\ DecSign(firstGross) > 0

\* C7: onBomb sets roundValue and cardCount to 0 and leaves balance unchanged;
\* a round ended by onBomb leaves balance at its value before startRound
\* minus the bet, also after later cashout calls.
C7_BombForfeits ==
  [][/\ Called("onBomb") =>
          (roundValue' = DecZero /\ cardCount' = 0 /\ balance' = balance)
     /\ ended' = "bomb" =>
          (balance' = DecSub(bal0', DecInt(bet0')) /\ roundValue' = DecZero)]_vars

C7_Witness ==
  /\ ended = "bomb" /\ lastOp = "cashout" /\ Len(hist) >= 1
  /\ DecSign(DecProd(hist)) > 0

\* C8 as claimed: in an open round every onSafeCard call, whatever its
\* multiplier, leaves roundValue >= its previous value, and the only
\* decreases are the resets to 0 by cashout and onBomb.
C8_Claimed ==
  [][(open /\ nOps' = nOps + 1 /\ lastOp' # "startRound") =>
       \/ DecLe(roundValue, roundValue')
       \/ (lastOp' \in {"cashout", "onBomb"} /\ roundValue' = DecZero)]_vars

\* C8 amended: the same when every multiplier of the round is >= 1 and the
\* bet is not changed during the round.
C8_NonDecreasing ==
  [][(open /\ nOps' = nOps + 1 /\ lastOp' # "startRound"
        /\ ~betTouched' /\ AllAtLeast(hist', DecInt(1))) =>
       \/ DecLe(roundValue, roundValue')
       \/ (lastOp' \in {"cashout", "onBomb"} /\ roundValue' = DecZero)]_vars

C8_Witness ==
  /\ open /\ ~betTouched /\ lastOp = "onSafeCard"
  /\ Len(hist) >= 2 /\ AllAtLeast(hist, DecInt(1))
  /\ \E i \in 1..Len(hist) : hist[i] = VIRAL_BOOST_MULT
  /\ \E i \in 1..Len(hist) : hist[i] = NORMAL_SAFE_MULT

C10_Claimed ==
  /\ rngInit.k = 0
  /\ rngInit.w \in (0..(Half - 1)) \X (0..(Half - 1))
  /\ rngInit.w # WordZero
  /\ rngSeed = SeedNum(FALSE, 0, WordZero, FALSE) => rngInit.w = <<0, 1>>

\* --------------------------------------------------------------- C1
\* C1: whatever the configuration, the outcome picked and the random fill,
\* the grid buildFinalGrid ends with evaluates on the payline to the
\* outcome's winKind, and the assertion does not throw.
C1_GridMatchesOutcome ==
  spinPhase = "built" =>
    /\ evaluatePayline(grid, outcome.paylineRow, slotConfig.cols) = outcome.winKind
    /\ ~thrown

\* The fill was a four-of-a-kind on the payline of a losing spin.
C1_Witness ==
  /\ spinPhase = "built"
  /\ slotConfig.cols = 4
  /\ outcome.winKind = "LOSE"
  /\ evaluatePayline(fill, outcome.paylineRow, 4) = "MATCH_4"
  /\ fill[outcome.paylineRow][0] = SYMBOLS_COUNT - 1

\* -------------------------------------------------------------- C11
\* C11: after every draw the state a generator stores is an integer in
\* [0, 2^32), the sum state + 0x6d2b79f5 being reduced modulo 2^32 before it
\* is stored; this is stated for both Rng classes.
C11_Claimed ==
  \A st \in {rngA, rngB} :
    /\ st.k = 0
    /\ st.w \in (0..(Half - 1)) \X (0..(Half - 1))

\* -------------------------------------------------------------- C12
\* C12: next() returns t / 2^32 for an unsigned 32-bit t, so a value in
\* [0, 1); nextInt(max) returns an integer in [0, max); pick(arr) returns an
\* element of arr.
C12_ResultsInRange ==
  \A i \in 1..Len(outA) :
    LET call == script[i]
        r == outA[i]
    IN  /\ call.op = "next" => r.val \in (0..(Half - 1)) \X (0..(Half - 1))
        /\ call.op = "nextInt" => r.val \in 0..(call.max - 1)
        /\ call.op = "pick" => \E j \in 1..Len(call.arr) : r.val = call.arr[j]

\* The largest draw of Rng.ts, 4294967294 / 2^32, scaled by the largest max.
C12_Witness ==
  /\ rngImpl = "card"
  /\ Len(outA) = 2
  /\ script[1] = CallNextInt(Half \div 2 - 1)
  /\ outA[1].val = Half \div 2 - 2
  /\ script[2].op = "pick"

\* -------------------------------------------------------------- C13
\* C13: drawCard returns bomb exactly when the first draw is below
\* BOMB_PROB, and has then consumed one draw; otherwise it has consumed two
\* draws and returns viral_boost exactly when the second draw is below
\* VIRAL_BOOST_PROB_GIVEN_SAFE, and safe if not.
C13_DrawCard ==
  ocCalls > 0 =>
    LET model == CardModels[ocVersion]
        d1 == CardDraw(ocPrev)
        d2 == CardDraw(d1.st)
        u1 == WordDec(d1.t)
        u2 == WordDec(d2.t)
        scale == DecMul(DecInt(Half), DecInt(Half))
        bomb == DecLt(u1, DecMul(model.BOMB_PROB, scale))
        boost == DecLt(u2, DecMul(model.VIRAL_BOOST_PROB_GIVEN_SAFE, scale))
    IN  /\ ocResult \in {"bomb", "viral_boost", "safe"}
        /\ ocResult = "bomb" <=> bomb
        /\ bomb => ocRng = d1.st
        /\ ~bomb => /\ ocRng = d2.st
                    /\ ocResult = "viral_boost" <=> boost

\* The first card of the generator seeded 1754856380 is a viral boost: its
\* second draw is 12884901 / 2^32, the largest below 0.003.
C13_Witness ==
  /\ ocVersion = "current"
  /\ ocCalls = 1
  /\ ocResult = "viral_boost"
  /\ CardDraw(CardDraw(ocPrev).st).t = <<196, 39845>>

\* -------------------------------------------------------------- C14
\* The expected growth of roundValue over one card draw:
\* (1 - BOMB_PROB) * (q * VB + (1 - q) * X), exactly.
StepGrowth(model) ==
  LET q == model.VIRAL_BOOST_PROB_GIVEN_SAFE
  IN  DecMul(DecSub(DecInt(1), model.BOMB_PROB),
             DecAdd(DecMul(q, model.VIRAL_BOOST_MULT),
                    DecMul(DecSub(DecInt(1), q), model.NORMAL_SAFE_MULT)))

WithinThousandth(x, y) ==
  /\ DecLe(DecSub(x, y), DecFrac(10, 1))
  /\ DecLe(DecSub(y, x), DecFrac(10, 1))

\* C14: for each set of card-draw constants in the code,
\* (1 - BOMB_PROB) * (q * VB + (1 - q) * X) is 1 within 0.001.
C14_Claimed == WithinThousandth(StepGrowth(CardModels[ocVersion]), DecInt(1))

\* -------------------------------------------------------------- C15
\* SURVIVAL_PROBS[k] * CASHOUT_MULTIPLIERS[k + 1], as JavaScript computes it.
RuleProduct(k) == FloatMul(SURVIVAL_PROBS[k], CASHOUT_MULTIPLIERS[k + 1])

\* The levels whose entry the last call of the sampler read (all of them
\* before the first call).
LevelsRead ==
  1..(IF smpFail.never THEN MAX_LEVEL - 1 ELSE smpFail.level)

\* C15, as claimed: SURVIVAL_PROBS[1] * CASHOUT_MULTIPLIERS[2] = RTP_TARGET
\* and SURVIVAL_PROBS[k] * CASHOUT_MULTIPLIERS[k + 1] = CASHOUT_MULTIPLIERS[k]
\* for every level k in 2..MAX_LEVEL - 1, each level having an entry; stated
\* for the entries the sampler reads.
C15_Claimed ==
  \A k \in LevelsRead :
    /\ SURVIVAL_PROBS[k] # FloatZero
    /\ RuleProduct(k) = (IF k = 1 THEN RTP_TARGET ELSE CASHOUT_MULTIPLIERS[k])

\* C15, amended: the products equal RTP_TARGET and CASHOUT_MULTIPLIERS[k]
\* within a relative error of 2^-52, and exactly at every level but 4; each
\* level 1..MAX_LEVEL - 1 has a non-zero entry, the entries 0 and MAX_LEVEL
\* stay 0.
C15_SurvivalRule ==
  /\ RuleProduct(1) = RTP_TARGET
  /\ \A k \in 2..(MAX_LEVEL - 1) :
       /\ FloatNear(RuleProduct(k), CASHOUT_MULTIPLIERS[k], 52)
       /\ k # 4 => RuleProduct(k) = CASHOUT_MULTIPLIERS[k]
  /\ \A k \in 1..(MAX_LEVEL - 1) : SURVIVAL_PROBS[k] # FloatZero
  /\ SURVIVAL_PROBS[0] = FloatZero
  /\ SURVIVAL_PROBS[MAX_LEVEL] = FloatZero
  /\ smpFail.never \/ SURVIVAL_PROBS[smpFail.level] # FloatZero

\* The sampler stopped at level 4, the level whose product is
\* 1.8599999999999999 and not 1.86.
C15_Witness ==
  /\ smpCalls > 0
  /\ smpFail = FailAt(4)
  /\ RuleProduct(4) # CASHOUT_MULTIPLIERS[4]
  /\ FloatCmp(RuleProduct(4), CASHOUT_MULTIPLIERS[4]) < 0

\* -------------------------------------------------------------- C16
\* SURVIVAL_PROBS[1] * ... * SURVIVAL_PROBS[k] for k = 1..n, each multiplied
\* from the left.
RECURSIVE SurvivalProductsTo(_)
SurvivalProductsTo(n) ==
  IF n = 1 THEN <<SURVIVAL_PROBS[1]>>
  ELSE LET s == SurvivalProductsTo(n - 1)
       IN  Append(s, FloatMul(s[n - 1], SURVIVAL_PROBS[n]))

SurvivalProducts == SurvivalProductsTo(MAX_LEVEL - 1)

\* The expected return, per unit bet, of stopping at level k >= 2.
StopValues ==
  [k \in 2..MAX_LEVEL |-> FloatMul(SurvivalProducts[k - 1], CASHOUT_MULTIPLIERS[k])]

StopValue(k) == StopValues[k]

\* C16, as claimed: for every k in 2..MAX_LEVEL the product of
\* SURVIVAL_PROBS[1..k-1] times CASHOUT_MULTIPLIERS[k] equals RTP_TARGET;
\* stated for the levels a round of the sampled failure level can stop at.
C16_Claimed ==
  \A k \in 2..MAX_LEVEL :
    (k - 1) \in LevelsRead => StopValue(k) = RTP_TARGET

\* C16, amended: the products equal RTP_TARGET within a relative error of
\* 2^-50; so the expected value of continuing from level k >= 2,
\* SURVIVAL_PROBS[k] * StopValue(k + 1) / SurvivalProduct(k), and of
\* stopping there agree within that error.
C16_StrategyInvariance ==
  /\ \A k \in 2..MAX_LEVEL : FloatNear(StopValue(k), RTP_TARGET, 50)
  /\ StopValue(2) = RTP_TARGET
  /\ ~smpFail.never => FloatNear(StopValue(smpFail.level + 1), RTP_TARGET, 50)

\* The sampler stopped at level 2: stopping at level 3 is worth
\* 0.9500000000000001.
C16_Witness ==
  /\ smpCalls > 0
  /\ smpFail = FailAt(2)
  /\ FloatCmp(StopValue(3), RTP_TARGET) > 0

\* -------------------------------------------------------------- C17
\* The j-th draw after the state st is below SURVIVAL_PROBS[j].
Survives(st, j) == NextBoolFloat(CardDraw(AdvanceBy(st, j - 1)).t, SURVIVAL_PROBS[j])

\* C17: sampleFailAtLike returns the least level k in 1..MAX_LEVEL - 1 whose
\* draw fails, the draws being taken one per level from level 1 up, and has
\* then consumed k draws; it returns Infinity when all MAX_LEVEL - 1 draws
\* succeed.
C17_SampleFailAtLike ==
  smpCalls > 0 =>
    /\ smpFail.never \/ smpFail.level \in 1..(MAX_LEVEL - 1)
    /\ \A k \in 1..(MAX_LEVEL - 1) :
         smpFail = FailAt(k) <=>
           /\ \A j \in 1..(k - 1) : Survives(smpPrev, j)
           /\ ~Survives(smpPrev, k)
    /\ smpFail = Never <=> \A j \in 1..(MAX_LEVEL - 1) : Survives(smpPrev, j)
    /\ smpRng = AdvanceBy(smpPrev, IF smpFail.never THEN MAX_LEVEL - 1
                                                   ELSE smpFail.level)

\* Seed 141: all 21 draws succeed.
C17_Witness ==
  /\ smpCalls = 1
  /\ smpFail = Never
  /\ smpRng = AdvanceBy(smpPrev, MAX_LEVEL - 1)

\* -------------------------------------------------------------- C18
\* C18: a LIKE accepted at level L ends the round as a loss exactly when L
\* is the failure level sampled at round start, and otherwise advances the
\* round to level L + 1; so the level never exceeds the failure level.
C18_LikeOutcome ==
  /\ [](game.failAtLike.never \/ game.level <= game.failAtLike.level)
  /\ [][ldEvent' = "like" /\ game.state = "running" /\ ~game.busy =>
          IF ~game.failAtLike.never /\ game.level = game.failAtLike.level
          THEN game'.state = "lose" /\ game'.level = game.level
          ELSE game'.state = "running" /\ game'.level = game.level + 1]_vars

\* The third LIKE of a round whose failure level is 3 was just accepted:
\* the first two advanced it, this one lost it.
C18_Witness ==
  /\ ldEvent = "like"
  /\ game.failAtLike = FailAt(3)
  /\ game.level = 3
  /\ game.state = "lose"

\* -------------------------------------------------------------- C19
\* What the page and the console show of a game.
Shown(g) ==
  [state |-> g.state, card |-> g.card, betSelector |-> g.betSelector,
   balanceText |-> g.balanceText, hudShown |-> g.hudShown,
   levelText |-> g.levelText, previewText |-> g.previewText,
   actionsShown |-> g.actionsShown, collectOnly |-> g.collectOnly,
   popupShown |-> g.popupShown, popupTitle |-> g.popupTitle,
   popupAmount |-> g.popupAmount, popupBalance |-> g.popupBalance,
   popupRetry |-> g.popupRetry, swipeLocked |-> g.swipeLocked,
   seedText |-> g.seedText, logged |-> g.logged]

\* The level number, the cash-out preview, the balance, the offered buttons
\* and the game state.
ListedValues(g) ==
  [state |-> g.state, balanceText |-> g.balanceText, hudShown |-> g.hudShown,
   levelText |-> g.levelText, previewText |-> g.previewText,
   actionsShown |-> g.actionsShown, collectOnly |-> g.collectOnly]

\* Two games given the same bets and player actions agree on the listed
\* values until a LIKE fails in one of them and not in the other.
ListedValuesAgree == ~ldDiverged => ListedValues(game) = ListedValues(twin)

\* Both games are in a round, of different failure levels, and no LIKE has
\* failed in one of them only.
RoundsDifferInFailureOnly ==
  /\ game.state = "running"
  /\ twin.state = "running"
  /\ game.bet = twin.bet
  /\ game.failAtLike # twin.failAtLike
  /\ ~ldDiverged

LeftRun(r, n) == \A c \in 0..(n - 1) : r[c] = r[0]

\* What C20 says of the payline of the grid g.
PaylineRule(g) ==
  LET r == g[outcome.paylineRow]
      cols == slotConfig.cols
      kind == evaluatePayline(g, outcome.paylineRow, cols)
      four == cols = 4 /\ LeftRun(r, 4)
  IN  /\ kind \in {"MATCH_4", "MATCH_3", "LOSE"}
      /\ kind = "MATCH_4" <=> four
      /\ kind = "MATCH_3" <=> (~four /\ LeftRun(r, 3))
      /\ kind = "LOSE" <=> ~LeftRun(r, 3)
      /\ (cols = 4 /\ r[1] = r[2] /\ r[2] = r[3] /\ r[0] # r[1]) => kind = "LOSE"

\* C20: evaluatePayline depends on the payline row and the column count
\* only: MATCH_4 iff cols = 4 and cells 0..3 are equal, otherwise MATCH_3 iff
\* cells 0..2 are equal, otherwise LOSE; a run that does not start at column
\* 0 does not count. Stated of the random fill and of the final grid of
\* every spin; the grid buildFinalGrid evaluated is the grid it returns.
C20_EvaluatePayline ==
  spinPhase = "built" =>
    /\ PaylineRule(fill)
    /\ PaylineRule(grid)
    /\ grid = EnforceOutcome(slotConfig, fill, outcome)

\* A four-column spin whose fill has equal cells 1..3 and another symbol in
\* cell 0 on the payline.
C20_Witness ==
  /\ spinPhase = "built"
  /\ slotConfig.cols = 4
  /\ LET r == fill[outcome.paylineRow]
     IN  r[1] = r[2] /\ r[2] = r[3] /\ r[0] # r[1]
  /\ evaluatePayline(fill, outcome.paylineRow, 4) = "LOSE"

\* -------------------------------------------------------------- C21
\* Every payline row over the ten symbols, for three and for four columns.
PaylineRows(cols) == [0..(cols - 1) -> 0..(SYMBOLS_COUNT - 1)]

\* The repair loop run on the row pl alone stops on a losing payline after
\* at most one symbol cycle of iterations.
RepairsWithinCycle(pl, cols) ==
  /\ evaluatePayline(FixRun((0 :> pl), 0, cols, 0).grid, 0, cols) = "LOSE"
  /\ FixRun((0 :> pl), 0, cols, 0).iter <= SYMBOLS_COUNT

EveryRowRepairsWithinCycle ==
  \A cols \in {3, 4} : \A pl \in PaylineRows(cols) : RepairsWithinCycle(pl, cols)

\* C21: for every initial payline row over 10 symbols and cols in {3, 4},
\* fixPaylineForLose stops with the payline evaluating to LOSE after at most
\* 10 iterations, so the cap of 50 iterations is never what stops the loop;
\* the grid of a losing spin is the one this loop leaves.
C21_FixTerminates ==
  (spinPhase = "built" /\ outcome.winKind = "LOSE") =>
    /\ EveryRowRepairsWithinCycle
    /\ RepairsWithinCycle(fill[outcome.paylineRow], slotConfig.cols)
    /\ grid = FixRun(fill, outcome.paylineRow, slotConfig.cols, 0).grid
    /\ FixRun(fill, outcome.paylineRow, slotConfig.cols, 0).iter < 50

\* A losing spin on four columns whose fill was a four-of-a-kind: the loop
\* ran twice (last cell, then third cell).
C21_Witness ==
  /\ spinPhase = "built"
  /\ outcome.winKind = "LOSE"
  /\ slotConfig.cols = 4
  /\ evaluatePayline(fill, outcome.paylineRow, 4) = "MATCH_4"
  /\ FixRun(fill, outcome.paylineRow, 4, 0).iter = 2

\* -------------------------------------------------------------- C22
\* The payline of the built grid and of the random fill.
BuiltPayline == grid[outcome.paylineRow]
FilledPayline == fill[outcome.paylineRow]

\* C22: for a winning outcome the payline shows the decided symbol.  For
\* MATCH_3 the first three payline cells equal outcome.symbolId and, when
\* cols = 4, the fourth differs from it: it is (symbolId + 1) mod
\* symbolsCount when the random fill made it equal, and as filled otherwise.
\* For MATCH_4 all four payline cells equal outcome.symbolId.
C22_PaylineShowsSymbol ==
  spinPhase = "built" =>
    /\ outcome.winKind = "MATCH_3" =>
         /\ \A c \in 0..2 : BuiltPayline[c] = outcome.symbolId
         /\ slotConfig.cols = 4 =>
              /\ BuiltPayline[3] # outcome.symbolId
              /\ BuiltPayline[3] =
                   IF FilledPayline[3] = outcome.symbolId
                   THEN (outcome.symbolId + 1) % slotConfig.symbolsCount
                   ELSE FilledPayline[3]
    /\ outcome.winKind = "MATCH_4" =>
         /\ slotConfig.cols = 4
         /\ \A c \in 0..3 : BuiltPayline[c] = outcome.symbolId

\* A three-of-a-kind of the highest symbol on four columns whose fill had
\* the highest symbol in the fourth cell: the cell was rotated to symbol 0.
C22_Witness ==
  /\ spinPhase = "built"
  /\ outcome.winKind = "MATCH_3"
  /\ slotConfig.cols = 4
  /\ outcome.symbolId = SYMBOLS_COUNT - 1
  /\ FilledPayline[3] = SYMBOLS_COUNT - 1
  /\ BuiltPayline[3] = 0

\* -------------------------------------------------------------- C23
\* The normalized multipliers of pc share the denominator pc.normalizedMults[1][2];
\* the sum of weight_i * numerator_i.
WeightedNumerators(pc) ==
  SeqSum([i \in 1..Len(pc.weights) |-> pc.weights[i] * pc.normalizedMults[i][1]])

\* pWin * (sum of weight_i * mult_i / sum of weight_i) = targetRtp, cross
\* multiplied: pWin * sum(weight_i * num_i) = targetRtp * sum(weight_i) * den.
RtpIdentity(config, pc) ==
  NatMul(NatOfInt(pc.pWin), NatOfInt(WeightedNumerators(pc)))
    = NatMul(NatOfInt(config.targetRtp * SeqSum(pc.weights)),
             NatOfInt(pc.normalizedMults[1][2]))

\* normalizedMult_i / baseMult_i is the same fraction for every tier.
CommonScale(config, pc) ==
  LET base == BASE_PROFILES[config.volatility].tierMultipliers
  IN  /\ Len(pc.normalizedMults) = Len(base)
      /\ \A i \in 1..Len(base) :
           /\ pc.normalizedMults[i][2] = pc.normalizedMults[1][2]
           /\ NatMul(NatOfInt(pc.normalizedMults[i][1]), NatOfInt(base[1]))
                = NatMul(NatOfInt(pc.normalizedMults[1][1]), NatOfInt(base[i]))

\* C23: for every volatility and every rows/cols combination the normalized
\* tier multipliers of the ProbabilityController satisfy
\* pWin * (sum weight_i * normalizedMult_i / sum weight_i) = targetRtp
\* exactly in rational arithmetic, and all of them are the base multipliers
\* scaled by one common factor.
C23_NormalizedRtp ==
  /\ RtpIdentity(slotConfig, ProbabilityController(slotConfig))
  /\ CommonScale(slotConfig, ProbabilityController(slotConfig))

\* A winning spin of the HIGH profile was paid the top normalized tier.
C23_Witness ==
  /\ spinPhase = "picked"
  /\ slotConfig.volatility = "HIGH"
  /\ outcome.winKind # "LOSE"
  /\ outcome.payoutMult = ProbabilityController(slotConfig).normalizedMults[7]

\* -------------------------------------------------------------- C25
\* The declared tables are inconsistent: a profile whose tier multipliers
\* and tier weights differ in length or whose weights sum to zero, or a
\* cash-out table without an entry for some level in 1..MAX_LEVEL.
InconsistentTables ==
  IF cfgGame = "slot"
  THEN \/ Len(cfgTables.tierMultipliers) # Len(cfgTables.tierWeights)
       \/ SeqSum(cfgTables.tierWeights) = 0
  ELSE \E level \in 1..MAX_LEVEL : ~HasEntry(cfgTables, level)

PickedProfile == BASE_PROFILES[slotConfig.volatility]
TierTable ==
  {ProbabilityController(slotConfig).normalizedMults[i] :
     i \in 1..Len(PickedProfile.tierMultipliers)}

\* C27: pickOutcome decides lose or win from one draw: LOSE iff the draw is
\* below pLose = 1 - hitRate, with payoutMult 0 and no symbol.  A win on
\* three columns is always MATCH_3; on four columns one further draw makes
\* it MATCH_4 iff that draw is below the configured match-4 share, else
\* MATCH_3.  Every win carries a symbolId in 0..symbolsCount - 1 and a
\* payoutMult of the normalized tier table, and paylineRow = floor(rows / 2)
\* is a row of the grid.
C27_PickOutcome ==
  spinPhase = "picked" =>
    /\ outcome.winKind = "LOSE"
         <=> pkDraws[1] * 100 < (100 - PickedProfile.hitRate) * DrawDen
    /\ outcome.winKind = "LOSE" =>
         /\ outcome.payoutMult = <<0, 1>>
         /\ "symbolId" \notin DOMAIN outcome
    /\ outcome.winKind # "LOSE" =>
         /\ slotConfig.cols = 3 => outcome.winKind = "MATCH_3"
         /\ slotConfig.cols = 4 =>
              outcome.winKind =
                IF pkDraws[2] * 100 < PickedProfile.match4Share * DrawDen
                THEN "MATCH_4" ELSE "MATCH_3"
         /\ outcome.symbolId \in 0..(slotConfig.symbolsCount - 1)
         /\ outcome.payoutMult \in TierTable
    /\ outcome.paylineRow = slotConfig.rows \div 2
    /\ outcome.paylineRow \in 0..(slotConfig.rows - 1)

\* A win on four columns whose second draw, 25/101, was below the MED share
\* of 0.25 and made it a MATCH_4.
C27_Witness ==
  /\ spinPhase = "picked"
  /\ slotConfig.cols = 4
  /\ slotConfig.volatility = "MED"
  /\ pkDraws[2] = 25
  /\ outcome.winKind = "MATCH_4"

\* -------------------------------------------------------------- C28
\* A swipe delivered while the handler in progress awaits its transition
\* or the bomb delay changes nothing of the game.
SwipeIgnoredWhileAwaiting ==
  (cgEvent' = "swipe" /\ cardGame.pending # "none") => cardGame' = cardGame

\* A swipe accepted in state running enters advanceCard and has its one
\* card drawn before the await.
RunningSwipeDrawsOne ==
  (cgEvent' = "swipe" /\ cardGame.state = "running" /\ ~cardGame.swipeLocked)
    => /\ cardGame'.handler = "advanceCard"
       /\ cardGame'.pending = "transition"
       /\ cardGame'.drawn = 1
       /\ cardGame'.updates = 0

\* When the handler of a swipe accepted in state running is through, it has
\* drawn one card and made one onSafeCard or onBomb call.
AdvanceDoneOnceEach ==
  (cardGame.handler = "advanceCard" /\ cardGame'.handler = "none")
    => /\ cardGame'.drawn = 1
       /\ cardGame'.updates = 1

\* C28: at most one swipe handler (beginRound or advanceCard) is in progress
\* at any time, and busy is set exactly while one is; a swipe that arrives
\* while a handler is awaiting is ignored; every swipe accepted in state
\* running draws exactly one card and applies exactly one economy update
\* (onSafeCard or onBomb).
C28_OneSwipeHandler ==
  /\ [](/\ cardGame.handlers <= 1
        /\ cardGame.busy <=> cardGame.handlers = 1
        /\ cardGame.pending # "none" => cardGame.handlers = 1
        /\ cardGame.drawn <= 1)
  /\ [][SwipeIgnoredWhileAwaiting]_vars
  /\ [][RunningSwipeDrawsOne]_vars
  /\ [][AdvanceDoneOnceEach]_vars

\* A swipe arrived while advanceCard was awaiting the transition to the
\* second card of a round.
C28_Witness ==
  /\ cgEvent = "swipe"
  /\ cardGame.handler = "advanceCard"
  /\ cardGame.pending = "transition"
  /\ cardGame.cardCount = 1
  /\ cardGame.drawn = 1

\* -------------------------------------------------------------- C30
\* C30: the round ledger exists only during a round.  Between event
\* handlers, whenever the card game is in state idle, intro, win or lose,
\* roundValue = 0 and cardCount = 0; roundValue is positive only in states
\* transitioning and running.
C30_LedgerOnlyInRound ==
  /\ cardGame.state \in {"idle", "intro", "win", "lose"} =>
       /\ cardGame.roundValue = DecZero
       /\ cardGame.cardCount = 0
  /\ DecSign(cardGame.roundValue) > 0 =>
       cardGame.state \in {"transitioning", "running"}

\* A bomb came after a safe card: the ledger that held its value is zero
\* while the lose popup is still to come.
C30_Witness ==
  /\ cardGame.state = "lose"
  /\ cardGame.pending = "delay"
  /\ Len(cardGame.applied) = 1
  /\ cardGame.roundValue = DecZero

\* -------------------------------------------------------------- C29
\* What the step that resolves the transition to the drawn card does to the
\* round: the multiplier it applies, if any.
CardApplies(mult) == cardGame'.applied = Append(cardGame.applied, mult)

RECURSIVE AppliedValue(_, _, _)
AppliedValue(v, mults, b) ==
  IF mults = <<>> THEN v
  ELSE AppliedValue(SafeValue(v, Head(mults), b), Tail(mults), b)

\* A cash-out click outside state running changes neither balance nor
\* roundValue.
CashoutIgnored ==
  (cgEvent' = "cashout" /\ cardGame.state # "running")
    => /\ cardGame'.balance = cardGame.balance
       /\ cardGame'.roundValue = cardGame.roundValue
       /\ cardGame'.credited = cardGame.credited

\* A cash-out click in state running credits the roundValue after the last
\* applied card and ends the round.
CashoutCredited ==
  (cgEvent' = "cashout" /\ cardGame.state = "running")
    => /\ cardGame.roundValue
            = AppliedValue(SeedValue(cardGame.bet), cardGame.applied, cardGame.bet)
       /\ cardGame'.balance = DecAdd(cardGame.balance, cardGame.roundValue)
       /\ cardGame'.gross = cardGame.roundValue
       /\ cardGame'.roundValue = DecZero
       /\ cardGame'.state = "win"

\* The balance grows by a cash-out click only.
CreditedByCashoutOnly ==
  DecLt(cardGame.balance, cardGame'.balance) => cgEvent' = "cashout"

\* C31: a cash-out is accepted only in state running: a cash-out click that
\* arrives in any other state, in particular while a card draw is in flight
\* (state transitioning), changes neither balance nor roundValue; in each
\* round at most one cash-out is credited, its amount is the roundValue
\* after the last fully applied card, and a round that ends on a bomb
\* credits nothing.
C31_CashoutOnlyRunning ==
  /\ [](/\ cardGame.credited <= 1
        /\ cardGame.state = "lose" => cardGame.credited = 0)
  /\ [][CashoutIgnored]_vars
  /\ [][CashoutCredited]_vars
  /\ [][CreditedByCashoutOnly]_vars

\* A cash-out click arrived while the draw of the second card was in
\* flight.
C31_Witness ==
  /\ cgEvent = "cashout"
  /\ cardGame.state = "transitioning"
  /\ cardGame.pending = "transition"
  /\ Len(cardGame.applied) = 1
  /\ cardGame.credited = 0

\* -------------------------------------------------------------- C32
\* The last event was a click on DISLIKE or on COLLECT.
DislikeEvent == ldEvent' \in {"dislike", "collect"}

\* DISLIKE and COLLECT are accepted in state running with no handler in
\* progress, and change nothing otherwise.
DislikeRejected ==
  (DislikeEvent /\ (game.busy \/ game.state # "running")) => game' = game

\* An accepted DISLIKE or COLLECT credits bet x CASHOUT_MULTIPLIERS[level],
\* the amount the preview of that level shows, and moves to win.
DislikeCredits ==
  (DislikeEvent /\ ~game.busy /\ game.state = "running")
    => /\ game.level \in 1..MAX_LEVEL
       /\ game'.balance
            = FloatAdd(game.balance,
                       FloatMul(FloatLit(game.bet, 0), CASHOUT_MULTIPLIERS[game.level]))
       /\ game.hudShown /\ game.levelText = game.level
       /\ game.previewText.payout
            = ToFixed2(FloatMul(FloatLit(game.bet, 0), CASHOUT_MULTIPLIERS[game.level]))
       /\ game'.state = "win"

\* A LIKE outside state running changes nothing, and no LIKE changes the
\* balance.
LikeLeavesBalance ==
  ldEvent' = "like"
    => /\ game'.balance = game.balance
       /\ game.state # "running" => game' = game

\* The balance changes at the start of a round, by -bet (after a refill
\* when it is below the bet), at an accepted DISLIKE or COLLECT and at the
\* refill of the popup button, and at no other event.
BalanceChanges ==
  /\ game'.balance # game.balance
       => ldEvent' \in {"swipe", "dislike", "collect", "popup"}
  /\ (ldEvent' = "swipe" /\ game'.balance # game.balance)
       => game'.balance
            = FloatSub(IF ladderCanStartRound(game) THEN game.balance
                       ELSE FloatLit(STARTING_BALANCE, 0),
                       FloatLit(game.bet, 0))
  /\ (ldEvent' = "popup" /\ game'.balance # game.balance)
       => /\ ~ladderCanStartRound(game)
          /\ game'.balance = FloatLit(STARTING_BALANCE, 0)

\* C32: in the ladder game DISLIKE/COLLECT is accepted only in state running
\* with no handler in progress; it credits exactly bet x
\* CASHOUT_MULTIPLIERS[level] once, the amount of the cash-out preview last
\* shown for that level, and moves to win; any further LIKE, DISLIKE or
\* COLLECT event before the next round changes nothing, and a round that
\* ends in lose credits nothing, so each round changes the balance by -bet
\* plus at most one payout.
C32_DislikeCreditsOnce ==
  /\ [][DislikeRejected]_vars
  /\ [][DislikeCredits]_vars
  /\ [][LikeLeavesBalance]_vars
  /\ [][BalanceChanges]_vars

\* A DISLIKE click arrived after the round was won and its popup shown.
C32_Witness ==
  /\ ldEvent = "dislike"
  /\ game.state = "win"
  /\ game.popupShown
  /\ game.level > 1

\* What the round in progress is to end as: lost iff the failure level is
\* below min(L, MAX_LEVEL), and won otherwise at level
\* min(max(L, 1), MAX_LEVEL).
SimLost(s) ==
  /\ ~s.failAt.never
  /\ s.failAt.level
       < (IF s.cashoutAtLevel < MAX_LEVEL THEN s.cashoutAtLevel ELSE MAX_LEVEL)

SimWinLevel(s) ==
  LET low == IF s.cashoutAtLevel > 1 THEN s.cashoutAtLevel ELSE 1
  IN  IF low < MAX_LEVEL THEN low ELSE MAX_LEVEL

\* The balance of the live game a round after the game was constructed,
\* with the payout credited.
LiveBalanceWith(s, payout) ==
  FloatAdd(FloatSub(FloatLit(STARTING_BALANCE, 0), FloatLit(s.bet, 0)), payout)

\* The pass that ends a simulated round counts one loss and returns
\* nothing, the live game being in lose with nothing credited, or counts
\* one win and returns bet x CASHOUT_MULTIPLIERS[level], the payout the live
\* game credits.
SimRoundEnds ==
  (ladderSim.sim.pc = "while" /\ ladderSim'.sim.pc = "for")
    => LET s == ladderSim.sim
           t == ladderSim'.sim
           g == ladderSim'.live
           payout == FloatMul(FloatLit(s.bet, 0),
                              CASHOUT_MULTIPLIERS[SimWinLevel(s)])
       IN  IF SimLost(s)
           THEN /\ t.losses = s.losses + 1 /\ t.wins = s.wins
                /\ t.totalReturned = s.totalReturned
                /\ t.returned = FloatZero
                /\ g.state = "lose" /\ g.popupShown
                /\ g.balance = LiveBalanceWith(s, FloatZero)
           ELSE /\ t.wins = s.wins + 1 /\ t.losses = s.losses
                /\ t.totalReturned = FloatAdd(s.totalReturned, payout)
                /\ t.returned = payout
                /\ g.state = "win" /\ g.timerPayout = payout
                /\ g.level = SimWinLevel(s)
                /\ g.balance = LiveBalanceWith(s, payout)

\* While a simulated round goes on the live game is running at the same
\* level with the same failure level; a round makes at most MAX_LEVEL
\* passes, and every round begun and ended is one win or one loss.
SimRoundInStep ==
  LET s == ladderSim.sim
  IN  /\ s.iterations <= MAX_LEVEL
      /\ s.wins + s.losses = s.r
      /\ s.r <= s.rounds
      /\ s.pc = "while"
           => /\ ladderSim.live.state = "running"
              /\ ~ladderSim.live.busy
              /\ ladderSim.live.level = s.level
              /\ ladderSim.live.failAtLike = s.failAt
              /\ s.iterations < MAX_LEVEL

\* C33: for every sampled failure level f and every strategy L, a round of
\* the ladder simulation ends as the live ladder game does when the player
\* presses LIKE at levels 1..L-1 and then DISLIKE: a loss returning 0 iff
\* f < min(L, MAX_LEVEL), otherwise a win returning bet x
\* CASHOUT_MULTIPLIERS[min(max(L, 1), MAX_LEVEL)]; a round ends within
\* MAX_LEVEL passes of the loop and counts as exactly one win or one loss.
C33_SimulationAsLiveGame ==
  /\ []SimRoundInStep
  /\ [][SimRoundEnds]_vars

\* A simulation returned after a round won at MAX_LEVEL in MAX_LEVEL passes
\* and a round lost.
C33_Witness ==
  /\ ladderSim.sim.pc = "return"
  /\ ladderSim.sim.wins = 1
  /\ ladderSim.sim.losses = 1
  /\ ladderSim.sim.totalLevels > MAX_LEVEL
  /\ ladderSim.sim.totalReturned = calcPayout(ladderSim.sim.bet, MAX_LEVEL)
  /\ ladderSim.live.state = "lose"

\* While a simulated round goes on, after startRound and after every card
\* that is not a bomb, the simulation's roundValue is the Economy's; a
\* round makes at most 31 draws, and every round ended is one win or one
\* loss.
CardSimInStep ==
  LET s == cardSim.sim
  IN  /\ s.draws <= 31
      /\ s.wins + s.losses = s.r
      /\ s.r <= s.rounds
      /\ s.pc = "while"
           => /\ cardSim.eco.bet = SWIPE_COST
              /\ s.roundValue = cardSim.eco.roundValue
              /\ s.roundValue = cardSim.seen
              /\ s.draws < 31
      /\ s.pc = "return" => s.wins + s.losses = s.rounds

\* The pass that ends a simulated round on a bomb returns nothing, as
\* onBomb leaves nothing to cash out; the pass that ends it on another card
\* adds to totalReturned what Economy.cashout returns and credits.
CardSimRoundEnds ==
  (cardSim.sim.pc = "while" /\ cardSim'.sim.pc = "for")
    => LET s == cardSim.sim
           t == cardSim'.sim
           e == cardSim'.eco
       IN  IF t.draw = "bomb"
           THEN /\ t.losses = s.losses + 1 /\ t.wins = s.wins
                /\ t.returned = DecZero
                /\ t.totalReturned = s.totalReturned
                /\ e.roundValue = DecZero
                /\ e.balance = cardSim.eco.balance
           ELSE /\ t.wins = s.wins + 1 /\ t.losses = s.losses
                /\ t.roundValue = cardSim'.seen
                /\ t.returned = e.gross
                /\ t.totalReturned = DecAdd(s.totalReturned, e.gross)
                /\ e.balance = DecAdd(cardSim.eco.balance, e.gross)
                /\ e.roundValue = DecZero

\* C34: the round value of the card-draw simulation equals the roundValue
\* of an Economy with bet = SWIPE_COST driven by startRound, one onSafeCard
\* per card that is not a bomb (with VIRAL_BOOST_MULT as the override of a
\* viral_boost) and cashout or onBomb at the end; what the simulation adds
\* to totalReturned is what Economy.cashout returns, and 0 on a bomb; a
\* round ends after at most 31 draws whatever cashoutDepth is, and
\* wins + losses = rounds.
C34_SimulationAsEconomy ==
  /\ []CardSimInStep
  /\ [][CardSimRoundEnds]_vars

\* A round cashed out on its 31st draw, at the cap of SWIPE_COST x MAX_MULT,
\* a viral_boost among its cards.
C34_Witness ==
  /\ cardSim.sim.pc = "for"
  /\ cardSim.sim.draws = 31
  /\ cardSim.sim.safeCount < cardSim.sim.cashoutDepth
  /\ cardSim.sim.viralBoosts = 1
  /\ cardSim.sim.returned = DecInt(SWIPE_COST * MAX_MULT)
  /\ cardSim.eco.gross = DecInt(SWIPE_COST * MAX_MULT)

\* The moves of the documented loop.
DocumentedMoves ==
  {<<"IDLE", "RUNNING">>, <<"RUNNING", "WIN">>, <<"RUNNING", "LOSE">>,
   <<"WIN", "IDLE">>, <<"LOSE", "IDLE">>}

\* C35: the StateMachine only ever moves along the documented loop, from
\* IDLE to RUNNING, from RUNNING to WIN or LOSE and from WIN or LOSE back to
\* IDLE; a call changes the state in no other way, and isLocked() is true
\* exactly while the state is RUNNING.
C35_Claimed ==
  /\ [][fsmState' # fsmState => <<fsmState, fsmState'>> \in DocumentedMoves]_vars
  /\ [](isLocked <=> fsmState = "RUNNING")

\* The balance a round starts from: the balance, or STARTING_BALANCE when
\* the balance is below the bet.
LadderStartsFrom(g) ==
  IF FloatCmp(g.balance, FloatLit(g.bet, 0)) >= 0 THEN g.balance
  ELSE FloatLit(STARTING_BALANCE, 0)

CardStartsFrom(g) ==
  IF DecLe(DecInt(g.bet), g.balance) THEN g.balance
  ELSE DecInt(STARTING_BALANCE)

\* In both games the balance is not negative and the bet is one the
\* selector offers, at most STARTING_BALANCE.
BalanceNeverNegative ==
  /\ FloatSign(game.balance) >= 0
  /\ DecSign(cardGame.balance) >= 0
  /\ game.bet \in BET_MIN..BET_MAX
  /\ cardGame.bet = SWIPE_COST
  /\ game.bet <= STARTING_BALANCE
  /\ cardGame.bet <= STARTING_BALANCE

\* A round starts from a balance of at least the bet, refilled if need be,
\* and takes the bet from it.
RoundStartsCovered ==
  /\ (ldEvent' = "swipe" /\ ~game.busy /\ game.state = "intro")
       => /\ FloatCmp(LadderStartsFrom(game), FloatLit(game.bet, 0)) >= 0
          /\ game'.balance = FloatSub(LadderStartsFrom(game), FloatLit(game.bet, 0))
  /\ cgRounds' = cgRounds + 1
       => /\ DecLe(DecInt(cardGame.bet), CardStartsFrom(cardGame))
          /\ cardGame'.balance
               = DecSub(CardStartsFrom(cardGame), DecInt(cardGame.bet))

\* C36: in both live games the balance is never negative: a round is
\* started only with balance >= bet, beginRound refilling the balance to
\* STARTING_BALANCE first whenever it is below the bet, and the selectable
\* bet never exceeds STARTING_BALANCE.
C36_BalanceNeverNegative ==
  /\ []BalanceNeverNegative
  /\ [][RoundStartsCovered]_vars

\* The ladder game in its sixth round, begun with bet 200 on a balance
\* below it that beginRound refilled.
C36_Witness ==
  /\ ldRounds = 6
  /\ game.state = "running"
  /\ game.bet = BET_MAX
  /\ game.balance = FloatLit(STARTING_BALANCE - BET_MAX, 0)

\* An edit of the ladder game's seed field changes the seed field, the
\* console line and the generator, and nothing the round in progress reads:
\* not the failure level sampled at its start, nor the level or the state.
LadderSeedEditKeepsRound ==
  ldEvent' = "seed"
    => [game' EXCEPT !.rng = game.rng, !.seedText = game.seedText,
                     !.logged = game.logged] = game

\* Every card of a round of the card game is the card the round would have
\* drawn had the seed field not been edited since the round began.
CardSeedEditKeepsRound ==
  cardGame.card.type # "none" => cardGame.card.type = cardGame.expected

\* C37: once a round has started, editing the seed field does not alter the
\* outcomes of that round: the results of the remaining LIKEs or swipes are
\* what they would be had the seed not been edited, in the ladder game and
\* in the card game.
C37_Claimed ==
  /\ []CardSeedEditKeepsRound
  /\ [][LadderSeedEditKeepsRound]_vars

\* C38: in the ladder game the level stays within 1..MAX_LEVEL in every
\* reachable running state: at level MAX_LEVEL only COLLECT is offered and
\* a LIKE event does not advance the level beyond MAX_LEVEL, so
\* CASHOUT_MULTIPLIERS[level] is always an entry of the table.
C38_Claimed ==
  /\ [](game.state = "running" => game.level \in 1..MAX_LEVEL)
  /\ [](game.state = "running" => game.level \in DOMAIN CASHOUT_MULTIPLIERS)
  /\ [][(ldEvent' = "like" /\ game.level = MAX_LEVEL)
          => game'.level <= MAX_LEVEL]_vars

\* 0 < p < 1
ProperProbability(p) ==
  FloatCmp(p, FloatZero) > 0 /\ FloatCmp(p, FloatLit(1, 0)) < 0

\* The levels whose survival probability the last call of the sampler
\* consulted: 1 up to the level it failed at, or all of 1..MAX_LEVEL - 1.
LevelsConsulted ==
  IF smpCalls = 0 THEN {}
  ELSE 1..(IF smpFail.never THEN MAX_LEVEL - 1 ELSE smpFail.level)

\* C39: every survival probability the pre-sampler uses is a probability
\* strictly between 0 and 1, for each level k in 1..MAX_LEVEL - 1; that is,
\* RTP_TARGET < CASHOUT_MULTIPLIERS[2] and CASHOUT_MULTIPLIERS is strictly
\* increasing from level 2 to MAX_LEVEL.
C39_SurvivalProbsProper ==
  /\ LevelsConsulted \subseteq 1..(MAX_LEVEL - 1)
  /\ \A k \in LevelsConsulted : ProperProbability(SURVIVAL_PROBS[k])
  /\ \A k \in 1..(MAX_LEVEL - 1) : ProperProbability(SURVIVAL_PROBS[k])
  /\ FloatCmp(RTP_TARGET, CASHOUT_MULTIPLIERS[2]) < 0
  /\ \A k \in 2..(MAX_LEVEL - 1) :
       FloatCmp(CASHOUT_MULTIPLIERS[k], CASHOUT_MULTIPLIERS[k + 1]) < 0

\* A call of the sampler consulted every level and failed at the last.
C39_Witness ==
  /\ smpCalls > 0
  /\ smpFail = FailAt(MAX_LEVEL - 1)

\* The grid is rows x cols and every cell is a symbol.
GridShaped ==
  /\ DOMAIN grid = 0..(slotConfig.rows - 1)
  /\ \A r \in DOMAIN grid :
       /\ DOMAIN grid[r] = 0..(slotConfig.cols - 1)
       /\ \A c \in DOMAIN grid[r] : grid[r][c] \in 0..(slotConfig.symbolsCount - 1)

\* C40: buildFinalGrid returns a rows x cols grid whose every cell is in
\* 0..symbolsCount - 1; enforcing the outcome changes only cells of the
\* payline row, every other row being exactly the random fill, and for a
\* LOSE outcome whose random payline is already LOSE the payline is left
\* unchanged too.
C40_OnlyPaylineChanged ==
  spinPhase = "built"
    => /\ GridShaped
       /\ \A r \in DOMAIN grid : r # outcome.paylineRow => grid[r] = fill[r]
       /\ (outcome.winKind = "LOSE"
             /\ evaluatePayline(fill, outcome.paylineRow, slotConfig.cols) = "LOSE")
            => grid = fill

\* A grid built for a winning outcome on four columns, the payline rewritten
\* and the other rows as filled.
C40_Witness ==
  /\ spinPhase = "built"
  /\ ~thrown
  /\ slotConfig.cols = 4
  /\ outcome.winKind = "MATCH_3"
  /\ grid[outcome.paylineRow] # fill[outcome.paylineRow]
  /\ grid[0] = fill[0]

====
